---- MODULE Spec2Model ----
(***************************************************************************)
(* p2d: exact model counter and d-DNNF compiler for pseudo-Boolean         *)
(* formulas.  The module follows the Rust sources:                         *)
(*   p2d/src/solving/pseudo_boolean_datastructure.rs  normalization,       *)
(*                                                    Constraint           *)
(*   p2d/src/solving/solver.rs                        Solver               *)
(*   p2d/src/partitioning/hypergraph.rs               Hypergraph           *)
(*   p2d/src/solving/ddnnf.rs                         DDNNFNode            *)
(* A solver state is a record of the fields of struct Solver; every        *)
(* function of the code is an operator from records to records, and every  *)
(* iteration of the loops of Solver::count and Solver::backtrack is one    *)
(* action.                                                                 *)
(***************************************************************************)
EXTENDS Integers, Sequences, FiniteSets, TLC

VARIABLES opb_file, pseudo_boolean_formula, learned_clauses,
          learned_clauses_by_variables, assignment_stack, assignments,
          decision_level, result_stack, ddnnf_stack,
          number_unsat_constraints, number_unassigned_variables, cache,
          variable_in_scope, constraint_indexes_in_scope, next_variables,
          vsids_scores, unique_id, statistics, panic, pc, solver_result,
          the_constraint, initial_constraint, call_stack, printer

vars == << opb_file, pseudo_boolean_formula, learned_clauses,
           learned_clauses_by_variables, assignment_stack, assignments,
           decision_level, result_stack, ddnnf_stack,
           number_unsat_constraints, number_unassigned_variables, cache,
           variable_in_scope, constraint_indexes_in_scope, next_variables,
           vsids_scores, unique_id, statistics, panic, pc, solver_result,
           the_constraint, initial_constraint, call_stack, printer >>

(***************************************************************************)
(* Bounds of the model.                                                    *)
(***************************************************************************)
\* largest absolute value of a coefficient of an input equation
MaxFactor == 2
\* largest absolute value of a right-hand side of an input equation
MaxRhs == 2
\* number of variable names an input file of the generated family may use
MaxVars == 3
MaxSummands == 3

(***************************************************************************)
(* Helpers over sets, sequences and maps.                                  *)
(***************************************************************************)
Min(S) == CHOOSE x \in S : \A y \in S : x <= y

RECURSIVE SortedSeq(_)
\* the elements of a finite set of integers in ascending order: the
\* iteration order of a BTreeSet / of the keys of a BTreeMap
SortedSeq(S) == IF S = {} THEN << >>
                ELSE LET m == Min(S) IN << m >> \o SortedSeq(S \ {m})

Range(seq) == { seq[i] : i \in 1..Len(seq) }

RECURSIVE SumSeq(_)
SumSeq(seq) == IF seq = << >> THEN 0 ELSE Head(seq) + SumSeq(Tail(seq))

RECURSIVE FlatMap(_, _)
FlatMap(F(_), seq) == IF seq = << >> THEN << >>
                      ELSE F(Head(seq)) \o FlatMap(F, Tail(seq))

MapSeq(F(_), seq) == [ i \in 1..Len(seq) |-> F(seq[i]) ]

\* m with key k bound to v (BTreeMap::insert)
MapInsert(m, k, v) == [ x \in DOMAIN m \cup {k} |-> IF x = k THEN v ELSE m[x] ]

\* m without key k (BTreeMap::remove)
MapRemove(m, k) == [ x \in DOMAIN m \ {k} |-> m[x] ]

EmptyMap == [ x \in {} |-> 0 ]

\* F applied to the value of an expression that is computed once
Bind(value, F(_)) == CHOOSE result \in { F(v) : v \in { value } } : TRUE

(***************************************************************************)
(* Normalization of the input equations.                                   *)
(* An equation is [lhs, rhs, kind]; a summand is                           *)
(* [variable_index, factor, positive].                                     *)
(***************************************************************************)
NegateSummand(s) == [ s EXCEPT !.factor = (-1) * s.factor ]

replace_equal_equations(equation) ==
    IF equation.kind = "Eq"
    THEN << [ lhs |-> equation.lhs, rhs |-> equation.rhs, kind |-> "Ge" ],
            [ lhs |-> equation.lhs, rhs |-> equation.rhs, kind |-> "Le" ] >>
    ELSE << equation >>

replace_le_equations(equation) ==
    IF equation.kind = "Le"
    THEN [ lhs |-> MapSeq(NegateSummand, equation.lhs),
           rhs |-> (-1) * equation.rhs,
           kind |-> "Ge" ]
    ELSE equation

replace_l_equations(equation) ==
    IF equation.kind = "L"
    THEN [ lhs |-> MapSeq(NegateSummand, equation.lhs),
           rhs |-> (-1) * equation.rhs,
           kind |-> "G" ]
    ELSE equation

\* replace_g_equations adding 1 to the right-hand side of a >= equation too
replace_g_equations_AlsoGe(equation) ==
    IF equation.kind \in { "G", "Ge" }
    THEN [ lhs |-> equation.lhs, rhs |-> equation.rhs + 1, kind |-> "Ge" ]
    ELSE equation

replace_g_equations(equation) ==
    IF equation.kind = "G"
    THEN [ lhs |-> equation.lhs, rhs |-> equation.rhs + 1, kind |-> "Ge" ]
    ELSE equation

RECURSIVE ReplaceNegativeLoop(_, _)
\* the loop of replace_negative_factors over the remaining summands
ReplaceNegativeLoop(rest, new_equation) ==
    IF rest = << >> THEN new_equation
    ELSE LET s == Head(rest) IN
         IF s.factor < 0
         THEN ReplaceNegativeLoop(Tail(rest),
                [ new_equation EXCEPT
                    !.lhs = Append(@, [ factor |-> (-1) * s.factor,
                                        variable_index |-> s.variable_index,
                                        positive |-> ~s.positive ]),
                    !.rhs = @ - s.factor ])
         ELSE ReplaceNegativeLoop(Tail(rest),
                [ new_equation EXCEPT !.lhs = Append(@, s) ])

replace_negative_factors(equation) ==
    ReplaceNegativeLoop(equation.lhs,
        [ lhs |-> << >>, rhs |-> equation.rhs, kind |-> equation.kind ])

\* the inner loop of add_up_same_variables: the factors of the later
\* summands lhs[j], j > i, on the variable of lhs[i]
LaterFactors(lhs, i) ==
    SumSeq([ k \in 1..(Len(lhs) - i) |->
               IF lhs[i + k].variable_index = lhs[i].variable_index
               THEN lhs[i + k].factor ELSE 0 ])

RECURSIVE AddUpLoop(_, _, _, _)
AddUpLoop(lhs, i, visited, out) ==
    IF i > Len(lhs) THEN out
    ELSE IF lhs[i].variable_index \in visited
         THEN AddUpLoop(lhs, i + 1, visited, out)
         ELSE AddUpLoop(lhs, i + 1, visited \cup { lhs[i].variable_index },
                Append(out, [ factor |-> lhs[i].factor + LaterFactors(lhs, i),
                              variable_index |-> lhs[i].variable_index,
                              positive |-> lhs[i].positive ]))

\* add_up_same_variables without the merge: every summand is kept as it is
add_up_same_variables_Unmerged(equation) == equation

add_up_same_variables(equation) ==
    [ lhs |-> AddUpLoop(equation.lhs, 1, {}, << >>),
      rhs |-> equation.rhs,
      kind |-> equation.kind ]

\* the pipeline at the head of PseudoBooleanFormula::new
NormalizeEquations(equations) ==
    MapSeq(replace_negative_factors,
      MapSeq(add_up_same_variables,
        MapSeq(replace_g_equations,
          MapSeq(replace_l_equations,
            MapSeq(replace_le_equations,
              FlatMap(replace_equal_equations, equations))))))

get_constraint_type_from_equation(equation) ==
    CASE equation.kind = "Ge" -> "GreaterEqual"
      [] equation.kind = "NotEq" -> "NotEqual"
      [] OTHER -> "panic"

(***************************************************************************)
(* Constraint (pseudo_boolean_datastructure.rs).                           *)
(* A constraint is a record of the fields of struct Constraint without the *)
(* memoized hash (hash_value, hash_value_old); the maps literals,          *)
(* unassigned_literals and assignments are functions on their key sets.    *)
(* An index is [t |-> "Normal" | "Learned", i |-> position].               *)
(***************************************************************************)
NormalConstraintIndex(i) == [ t |-> "Normal", i |-> i ]
LearnedClauseIndex(i) == [ t |-> "Learned", i |-> i ]

FirstDecision == [ k |-> "FirstDecision" ]
SecondDecision == [ k |-> "SecondDecision" ]
Propagated(constraint_index) == [ k |-> "Propagated", c |-> constraint_index ]

RECURSIVE MaxLiteralLoop(_, _, _)
MaxLiteralLoop(keys, m, best) ==
    IF keys = << >> THEN best
    ELSE LET literal == m[Head(keys)] IN
         MaxLiteralLoop(Tail(keys), m,
            IF literal.factor > best.factor
            THEN [ index |-> literal.index, factor |-> literal.factor,
                   positive |-> literal.positive ]
            ELSE best)

\* Constraint::get_max_literal: the first unassigned literal, in key order,
\* of the strictly largest factor; (0, 0, false) when there is none
get_max_literal(c) ==
    MaxLiteralLoop(SortedSeq(DOMAIN c.unassigned_literals), c.unassigned_literals,
                   [ index |-> 0, factor |-> 0, positive |-> FALSE ])

\* the satisfaction test that propagate and undo evaluate
IsSatisfiedNow(c) ==
    IF c.constraint_type = "GreaterEqual"
    THEN c.sum_true >= c.degree
    ELSE c.sum_unassigned = 0 /\ c.sum_true # c.degree

\* Constraint::is_unsatisfied
is_unsatisfied(c) ==
    IF c.constraint_type = "GreaterEqual"
    THEN c.sum_true < c.degree
    ELSE c.sum_unassigned # 0 \/ c.sum_true = c.degree

\* the literals of unassigned_literals in key order
UnassignedList(c) ==
    LET keys == SortedSeq(DOMAIN c.unassigned_literals) IN
    [ i \in 1..Len(keys) |-> c.unassigned_literals[keys[i]] ]

\* GreaterEqualVerdict implying the max literal also when the constraint can
\* be satisfied without it
GreaterEqualVerdict_ImpliesOnEqual(c, satisfied_name) ==
    IF c.sum_true >= c.degree THEN [ t |-> satisfied_name, list |-> << >> ]
    ELSE IF c.sum_true + c.sum_unassigned < c.degree
         THEN [ t |-> "Unsatisfied", list |-> << >> ]
    ELSE IF c.sum_true + c.sum_unassigned = c.degree
         THEN [ t |-> "ImpliedLiteralList", list |-> UnassignedList(c) ]
    ELSE IF c.sum_true + c.sum_unassigned <= c.degree + c.max_literal.factor
         THEN [ t |-> "ImpliedLiteral", list |-> << c.max_literal >> ]
    ELSE [ t |-> "NothingToPropagated", list |-> << >> ]

\* the verdict of a GreaterEqual constraint on its current sums
GreaterEqualVerdict(c, satisfied_name) ==
    IF c.sum_true >= c.degree THEN [ t |-> satisfied_name, list |-> << >> ]
    ELSE IF c.sum_true + c.sum_unassigned < c.degree
         THEN [ t |-> "Unsatisfied", list |-> << >> ]
    ELSE IF c.sum_true + c.sum_unassigned = c.degree
         THEN [ t |-> "ImpliedLiteralList", list |-> UnassignedList(c) ]
    ELSE IF c.sum_true + c.sum_unassigned < c.degree + c.max_literal.factor
         THEN [ t |-> "ImpliedLiteral", list |-> << c.max_literal >> ]
    ELSE [ t |-> "NothingToPropagated", list |-> << >> ]

\* the verdict of a NotEqual constraint on its current sums
NotEqualVerdict(c, satisfied_name) ==
    IF c.sum_unassigned = 0 /\ c.sum_true # c.degree
    THEN [ t |-> satisfied_name, list |-> << >> ]
    ELSE IF c.sum_unassigned = 0 /\ c.sum_true = c.degree
         THEN [ t |-> "Unsatisfied", list |-> << >> ]
    ELSE [ t |-> "NothingToPropagated", list |-> << >> ]

\* RecordAssignment with the factor added to sum_true whatever the sign
RecordAssignment_CountsEverySign(c, literal, assignment_kind, level) ==
    [ c EXCEPT
        !.sum_true = @ + c.literals[literal.index].factor,
        !.sum_unassigned = @ - c.literals[literal.index].factor,
        !.unassigned_literals = MapRemove(@, literal.index),
        !.assignments = MapInsert(@, literal.index,
            [ sign |-> literal.positive, kind |-> assignment_kind,
              decision_level |-> level ]) ]

\* RecordAssignment with the variable left in unassigned_literals
RecordAssignment_KeepsUnassignedLiteral(c, literal, assignment_kind, level) ==
    [ c EXCEPT
        !.sum_true = IF c.literals[literal.index].positive = literal.positive
                     THEN @ + c.literals[literal.index].factor ELSE @,
        !.sum_unassigned = @ - c.literals[literal.index].factor,
        !.assignments = MapInsert(@, literal.index,
            [ sign |-> literal.positive, kind |-> assignment_kind,
              decision_level |-> level ]) ]

\* RecordAssignment with sum_unassigned left as it was
RecordAssignment_KeepsUnassignedSum(c, literal, assignment_kind, level) ==
    [ c EXCEPT
        !.sum_true = IF c.literals[literal.index].positive = literal.positive
                     THEN @ + c.literals[literal.index].factor ELSE @,
        !.unassigned_literals = MapRemove(@, literal.index),
        !.assignments = MapInsert(@, literal.index,
            [ sign |-> literal.positive, kind |-> assignment_kind,
              decision_level |-> level ]) ]

\* the update of the sums and maps in Constraint::propagate
RecordAssignment(c, literal, assignment_kind, level) ==
    LET literal_in_constraint == c.literals[literal.index] IN
    [ c EXCEPT
        !.sum_true = IF literal_in_constraint.positive = literal.positive
                     THEN @ + literal_in_constraint.factor ELSE @,
        !.sum_unassigned = @ - literal_in_constraint.factor,
        !.unassigned_literals = MapRemove(@, literal.index),
        !.assignments = MapInsert(@, literal.index,
            [ sign |-> literal.positive, kind |-> assignment_kind,
              decision_level |-> level ]) ]

\* Constraint::propagate without the early return of AlreadySatisfied: a
\* satisfied constraint records the assignment and reports Satisfied again
ConstraintPropagate_NoEarlyExit(c, literal, assignment_kind, level) ==
    IF literal.index \in DOMAIN c.assignments
    THEN [ c |-> c,
           result |-> IF c.assignments[literal.index].sign = literal.positive
                      THEN [ t |-> "NothingToPropagated", list |-> << >> ]
                      ELSE [ t |-> "Unsatisfied", list |-> << >> ] ]
    ELSE IF literal.index \notin DOMAIN c.literals
    THEN [ c |-> c, result |-> [ t |-> "panic", list |-> << >> ] ]
    ELSE Bind(RecordAssignment(c, literal, assignment_kind, level), LAMBDA c1 :
           IF c1.constraint_type = "NotEqual"
           THEN [ c |-> c1, result |-> NotEqualVerdict(c1, "Satisfied") ]
           ELSE Bind([ c1 EXCEPT !.max_literal = get_max_literal(c1) ], LAMBDA c2 :
                  [ c |-> c2, result |-> GreaterEqualVerdict(c2, "Satisfied") ]))

\* Constraint::propagate: [c |-> the constraint afterwards, result |-> verdict]
ConstraintPropagate(c, literal, assignment_kind, level) ==
    IF literal.index \in DOMAIN c.assignments
    THEN [ c |-> c,
           result |-> IF c.assignments[literal.index].sign = literal.positive
                      THEN [ t |-> "NothingToPropagated", list |-> << >> ]
                      ELSE [ t |-> "Unsatisfied", list |-> << >> ] ]
    ELSE IF IsSatisfiedNow(c)
    THEN [ c |-> c, result |-> [ t |-> "AlreadySatisfied", list |-> << >> ] ]
    ELSE IF literal.index \notin DOMAIN c.literals
    THEN [ c |-> c, result |-> [ t |-> "panic", list |-> << >> ] ]
    ELSE Bind(RecordAssignment(c, literal, assignment_kind, level), LAMBDA c1 :
           IF c1.constraint_type = "NotEqual"
           THEN [ c |-> c1, result |-> NotEqualVerdict(c1, "Satisfied") ]
           ELSE Bind([ c1 EXCEPT !.max_literal = get_max_literal(c1) ], LAMBDA c2 :
                  [ c |-> c2, result |-> GreaterEqualVerdict(c2, "Satisfied") ]))

\* Constraint::undo with sum_true left as the assignment made it
ConstraintUndo_KeepsSumTrue(c, variable_index, variable_sign) ==
    IF variable_index \in DOMAIN c.assignments /\ variable_index \in DOMAIN c.literals
    THEN Bind(c.literals[variable_index], LAMBDA literal :
           Bind([ c EXCEPT
                    !.max_literal = IF literal.factor > @.factor THEN literal ELSE @,
                    !.unassigned_literals = MapInsert(@, literal.index, literal),
                    !.assignments = MapRemove(@, variable_index),
                    !.sum_unassigned = @ + literal.factor ],
                LAMBDA c1 :
                  [ c |-> c1, result |-> IsSatisfiedNow(c) /\ ~IsSatisfiedNow(c1) ]))
    ELSE [ c |-> c, result |-> FALSE ]

\* Constraint::undo with max_literal left as the last propagate computed it
ConstraintUndo_KeepsMaxLiteral(c, variable_index, variable_sign) ==
    IF variable_index \in DOMAIN c.assignments /\ variable_index \in DOMAIN c.literals
    THEN Bind(c.literals[variable_index], LAMBDA literal :
           Bind([ c EXCEPT
                    !.unassigned_literals = MapInsert(@, literal.index, literal),
                    !.assignments = MapRemove(@, variable_index),
                    !.sum_unassigned = @ + literal.factor,
                    !.sum_true = IF literal.positive = variable_sign
                                 THEN @ - literal.factor ELSE @ ],
                LAMBDA c1 :
                  [ c |-> c1, result |-> IsSatisfiedNow(c) /\ ~IsSatisfiedNow(c1) ]))
    ELSE [ c |-> c, result |-> FALSE ]

\* Constraint::undo: [c |-> the constraint afterwards, result |-> whether it
\* went from satisfied to not satisfied]
ConstraintUndo(c, variable_index, variable_sign) ==
    IF variable_index \in DOMAIN c.assignments /\ variable_index \in DOMAIN c.literals
    THEN Bind(c.literals[variable_index], LAMBDA literal :
           Bind([ c EXCEPT
                    !.max_literal = IF literal.factor > @.factor THEN literal ELSE @,
                    !.unassigned_literals = MapInsert(@, literal.index, literal),
                    !.assignments = MapRemove(@, variable_index),
                    !.sum_unassigned = @ + literal.factor,
                    !.sum_true = IF literal.positive = variable_sign
                                 THEN @ - literal.factor ELSE @ ],
                LAMBDA c1 :
                  [ c |-> c1, result |-> IsSatisfiedNow(c) /\ ~IsSatisfiedNow(c1) ]))
    ELSE [ c |-> c, result |-> FALSE ]

\* Constraint::simplify
ConstraintSimplify(c) ==
    IF c.constraint_type = "NotEqual"
    THEN NotEqualVerdict(c, "Satisfied")
    ELSE GreaterEqualVerdict(c, "Satisfied")

\* Constraint::calculate_reason
calculate_reason(c, propagated_variable_index) ==
    [ index \in DOMAIN c.assignments \ { propagated_variable_index } |->
        c.assignments[index] ]

(***************************************************************************)
(* PseudoBooleanFormula::new.  An input file is                            *)
(* [equations, max_name_index]: the parser numbers the variable names      *)
(* 0, 1, ... in the order of their first occurrence and sets               *)
(* positive = true in every summand.                                       *)
(***************************************************************************)
RECURSIVE InsertLiterals(_, _)
InsertLiterals(lhs, m) ==
    IF lhs = << >> THEN m
    ELSE LET summand == Head(lhs) IN
         InsertLiterals(Tail(lhs),
            MapInsert(m, summand.variable_index,
               [ index |-> summand.variable_index, factor |-> summand.factor,
                 positive |-> summand.positive ]))

\* the constraint built for the equation at position constraint_counter
NewConstraint(equation, constraint_counter) ==
    Bind(InsertLiterals(equation.lhs, EmptyMap), LAMBDA literal_map :
      Bind(SumSeq([ i \in 1..Len(equation.lhs) |-> equation.lhs[i].factor ]),
           LAMBDA factors :
        Bind([ index |-> NormalConstraintIndex(constraint_counter),
               literals |-> literal_map,
               unassigned_literals |-> literal_map,
               degree |-> IF equation.rhs < 0 THEN 0 ELSE equation.rhs,
               sum_true |-> 0,
               sum_unassigned |-> factors,
               assignments |-> EmptyMap,
               factor_sum |-> factors,
               constraint_type |-> get_constraint_type_from_equation(equation),
               max_literal |-> [ index |-> 0, factor |-> 0, positive |-> FALSE ] ],
             LAMBDA c : [ c EXCEPT !.max_literal = get_max_literal(c) ])))

RECURSIVE PushByVariable(_, _, _)
\* constraints_by_variable after the pushes for the summands of one equation
PushByVariable(lhs, constraint_counter, by_variable) ==
    IF lhs = << >> THEN by_variable
    ELSE PushByVariable(Tail(lhs), constraint_counter,
            [ by_variable EXCEPT ![Head(lhs).variable_index] =
                                     Append(@, constraint_counter) ])

RECURSIVE ByVariableLoop(_, _, _)
ByVariableLoop(equation_list, constraint_counter, by_variable) ==
    IF constraint_counter >= Len(equation_list) THEN by_variable
    ELSE ByVariableLoop(equation_list, constraint_counter + 1,
            PushByVariable(equation_list[constraint_counter + 1].lhs,
                           constraint_counter, by_variable))

\* PseudoBooleanFormula::new; constraints and constraints_by_variable are
\* indexed from 0 like the Vecs of the code
NewPseudoBooleanFormula(file) ==
    Bind(NormalizeEquations(file.equations), LAMBDA equation_list :
      [ constraints |-> [ i \in 0..(Len(equation_list) - 1) |->
                            NewConstraint(equation_list[i + 1], i) ],
        number_variables |-> file.max_name_index,
        constraints_by_variable |->
            ByVariableLoop(equation_list, 0,
                           [ v \in 0..(file.max_name_index - 1) |-> << >> ]) ])

(***************************************************************************)
(* Solver (solver.rs).  A solver state s is a record of the fields of      *)
(* struct Solver plus panic, the message of a panic the code has run into  *)
(* ("" while there is none).  progress, last_progress, progress_split      *)
(* (feature show_progress) and dlcs_scores (never negative, read only by   *)
(* a panic test) are left out.                                             *)
(***************************************************************************)
None == [ some |-> FALSE, sign |-> FALSE ]
Some(sign) == [ some |-> TRUE, sign |-> sign ]

NoConflict == [ t |-> "None", i |-> 0 ]

TrueLeave == [ t |-> "True" ]
FalseLeave == [ t |-> "False" ]
LiteralLeave(index, positive) == [ t |-> "Lit", index |-> index, positive |-> positive ]
AndNode(child_list, node_id) == [ t |-> "And", children |-> child_list, id |-> node_id ]
OrNode(child_list, node_id) == [ t |-> "Or", children |-> child_list, id |-> node_id ]

Assignment(level, index, sign, kind) ==
    [ e |-> "Assignment", decision_level |-> level, variable_index |-> index,
      variable_sign |-> sign, assignment_kind |-> kind ]

\* Solver::new
NewSolver(formula) ==
    [ pseudo_boolean_formula |-> formula,
      assignment_stack |-> << >>,
      decision_level |-> 0,
      learned_clauses_by_variables |-> [ v \in 0..(formula.number_variables - 1) |-> << >> ],
      learned_clauses |-> EmptyMap,
      result_stack |-> << >>,
      ddnnf_stack |-> << >>,
      number_unsat_constraints |-> Cardinality(DOMAIN formula.constraints),
      number_unassigned_variables |-> formula.number_variables,
      cache |-> EmptyMap,
      statistics |-> [ cache_hits |-> 0, cache_entries |-> 0,
                       propagations_from_learned_clauses |-> 0 ],
      assignments |-> [ v \in 0..(formula.number_variables - 1) |-> None ],
      variable_in_scope |-> 0..(formula.number_variables - 1),
      constraint_indexes_in_scope |-> DOMAIN formula.constraints,
      next_variables |-> << >>,
      vsids_scores |-> [ v \in 0..(formula.number_variables - 1) |-> 1 ],
      unique_id |-> 0,
      clause_learning |-> TRUE,
      panic |-> "" ]

\* the queue entries pushed for the literals a constraint implies
Implications(list, constraint_index, from_learned_clause) ==
    [ i \in 1..Len(list) |->
        [ index |-> list[i].index, sign |-> list[i].positive,
          kind |-> Propagated(constraint_index),
          from_learned_clause |-> from_learned_clause ] ]

RECURSIVE PropagateConstraints_IgnoresConflict(_, _, _, _, _)
\* the loop "propagate from constraints" that goes on over a constraint
\* that reports Unsatisfied
PropagateConstraints_IgnoresConflict(s, queue, entry, list, i) ==
    IF i > Len(list) THEN [ s |-> s, queue |-> queue, conflict |-> NoConflict ]
    ELSE Bind(ConstraintPropagate(
                s.pseudo_boolean_formula.constraints[list[i]],
                [ index |-> entry.index, positive |-> entry.sign, factor |-> 0 ],
                entry.kind, s.decision_level),
              LAMBDA r :
         Bind([ s EXCEPT !.pseudo_boolean_formula.constraints[list[i]] = r.c ],
              LAMBDA s1 :
           CASE r.result.t = "Satisfied" ->
                   Bind([ s1 EXCEPT !.number_unsat_constraints = @ - 1,
                                    !.constraint_indexes_in_scope = @ \ { list[i] } ],
                        LAMBDA s2 : PropagateConstraints_IgnoresConflict(s2, queue, entry, list, i + 1))
              [] r.result.t \in { "ImpliedLiteral", "ImpliedLiteralList" } ->
                   Bind(queue \o Implications(r.result.list,
                                   NormalConstraintIndex(list[i]), FALSE),
                        LAMBDA new_queue :
                          PropagateConstraints_IgnoresConflict(s1, new_queue, entry, list, i + 1))
              [] r.result.t = "panic" ->
                   [ s |-> [ s1 EXCEPT !.panic = "Propagate must only be called on constraints that actually contain the literal!" ],
                     queue |-> << >>, conflict |-> NoConflict ]
              [] OTHER -> PropagateConstraints_IgnoresConflict(s1, queue, entry, list, i + 1)))

RECURSIVE PropagateConstraints(_, _, _, _, _)
\* the loop "propagate from constraints" of Solver::propagate, from
\* position i of constraints_by_variable[entry.index]:
\* [s, queue, conflict]
PropagateConstraints(s, queue, entry, list, i) ==
    IF i > Len(list) THEN [ s |-> s, queue |-> queue, conflict |-> NoConflict ]
    ELSE Bind(ConstraintPropagate(
                s.pseudo_boolean_formula.constraints[list[i]],
                [ index |-> entry.index, positive |-> entry.sign, factor |-> 0 ],
                entry.kind, s.decision_level),
              LAMBDA r :
         Bind([ s EXCEPT !.pseudo_boolean_formula.constraints[list[i]] = r.c ],
              LAMBDA s1 :
           CASE r.result.t = "Satisfied" ->
                   Bind([ s1 EXCEPT !.number_unsat_constraints = @ - 1,
                                    !.constraint_indexes_in_scope = @ \ { list[i] } ],
                        LAMBDA s2 : PropagateConstraints(s2, queue, entry, list, i + 1))
              [] r.result.t = "Unsatisfied" ->
                   [ s |-> s1, queue |-> << >>,
                     conflict |-> NormalConstraintIndex(list[i]) ]
              [] r.result.t \in { "ImpliedLiteral", "ImpliedLiteralList" } ->
                   Bind(queue \o Implications(r.result.list,
                                   NormalConstraintIndex(list[i]), FALSE),
                        LAMBDA new_queue :
                          PropagateConstraints(s1, new_queue, entry, list, i + 1))
              [] r.result.t = "panic" ->
                   [ s |-> [ s1 EXCEPT !.panic = "Propagate must only be called on constraints that actually contain the literal!" ],
                     queue |-> << >>, conflict |-> NoConflict ]
              [] OTHER -> PropagateConstraints(s1, queue, entry, list, i + 1)))

RECURSIVE PropagateLearned(_, _, _, _, _)
\* the loop "propagate from learned clauses" of Solver::propagate
PropagateLearned(s, queue, entry, list, i) ==
    IF i > Len(list) THEN [ s |-> s, queue |-> queue, conflict |-> NoConflict ]
    ELSE Bind(ConstraintPropagate(
                s.learned_clauses[list[i]],
                [ index |-> entry.index, positive |-> entry.sign, factor |-> 0 ],
                entry.kind, s.decision_level),
              LAMBDA r :
         Bind([ s EXCEPT !.learned_clauses[list[i]] = r.c ], LAMBDA s1 :
           CASE r.result.t = "Unsatisfied" ->
                   [ s |-> s1, queue |-> << >>,
                     conflict |-> LearnedClauseIndex(list[i]) ]
              [] r.result.t \in { "ImpliedLiteral", "ImpliedLiteralList" } ->
                   Bind(queue \o Implications(r.result.list,
                                   LearnedClauseIndex(list[i]), TRUE),
                        LAMBDA new_queue :
                          PropagateLearned(s1, new_queue, entry, list, i + 1))
              [] r.result.t = "panic" ->
                   [ s |-> [ s1 EXCEPT !.panic = "Propagate must only be called on constraints that actually contain the literal!" ],
                     queue |-> << >>, conflict |-> NoConflict ]
              [] OTHER -> PropagateLearned(s1, queue, entry, list, i + 1)))

\* the bookkeeping of Solver::propagate for one dequeued assignment
AssignVariable(s, entry) ==
    [ s EXCEPT
        !.statistics.propagations_from_learned_clauses =
            IF entry.from_learned_clause THEN @ + 1 ELSE @,
        !.number_unassigned_variables = @ - 1,
        !.variable_in_scope = @ \ { entry.index },
        !.assignment_stack = Append(@,
            Assignment(s.decision_level, entry.index, entry.sign, entry.kind)),
        !.assignments[entry.index] = Some(entry.sign) ]

RECURSIVE PropagateQueue(_, _)
\* the while loop of Solver::propagate: [s, conflict]
PropagateQueue(s, propagation_queue) ==
    IF propagation_queue = << >> THEN [ s |-> s, conflict |-> NoConflict ]
    ELSE Bind(Head(propagation_queue), LAMBDA entry :
         Bind(Tail(propagation_queue), LAMBDA rest :
            IF entry.index \notin s.variable_in_scope
            THEN PropagateQueue(s, rest)
            ELSE IF s.assignments[entry.index].some
            THEN IF s.assignments[entry.index].sign = entry.sign
                 THEN PropagateQueue(s, rest)
                 ELSE [ s |-> [ s EXCEPT !.panic = "Assigning a two different values to a single variable should never happen" ],
                        conflict |-> NoConflict ]
            ELSE IF s.number_unassigned_variables = 0
            THEN [ s |-> [ s EXCEPT !.panic = "attempt to subtract with overflow" ],
                   conflict |-> NoConflict ]
            ELSE Bind(AssignVariable(s, entry), LAMBDA s1 :
                 Bind(PropagateConstraints(s1, rest, entry,
                        s1.pseudo_boolean_formula.constraints_by_variable[entry.index], 1),
                      LAMBDA n :
                    IF n.conflict.t # "None" \/ n.s.panic # ""
                    THEN [ s |-> n.s, conflict |-> n.conflict ]
                    ELSE Bind(PropagateLearned(n.s, n.queue, entry,
                                n.s.learned_clauses_by_variables[entry.index], 1),
                              LAMBDA l :
                            IF l.conflict.t # "None" \/ l.s.panic # ""
                            THEN [ s |-> l.s, conflict |-> l.conflict ]
                            ELSE PropagateQueue(l.s, l.queue))))))

\* Solver::propagate: [s, conflict], conflict the index of a violated
\* constraint or NoConflict
SolverPropagate(s, variable_index, variable_sign, assignment_kind) ==
    PropagateQueue(s, << [ index |-> variable_index, sign |-> variable_sign,
                           kind |-> assignment_kind,
                           from_learned_clause |-> FALSE ] >>)

RECURSIVE UndoConstraints(_, _, _, _)
\* the loop "undo in constraints" of Solver::undo_last_assignment
UndoConstraints(s, last_assignment, list, i) ==
    IF i > Len(list) THEN s
    ELSE Bind(ConstraintUndo(s.pseudo_boolean_formula.constraints[list[i]],
                             last_assignment.variable_index,
                             last_assignment.variable_sign),
              LAMBDA r :
         Bind([ s EXCEPT
                  !.pseudo_boolean_formula.constraints[list[i]] = r.c,
                  !.number_unsat_constraints = IF r.result THEN @ + 1 ELSE @,
                  !.constraint_indexes_in_scope =
                      IF r.result THEN @ \cup { list[i] } ELSE @ ],
              LAMBDA s1 : UndoConstraints(s1, last_assignment, list, i + 1)))

RECURSIVE UndoLearned(_, _, _, _)
\* the loop "undo in learned clauses" of Solver::undo_last_assignment
UndoLearned(s, last_assignment, list, i) ==
    IF i > Len(list) THEN s
    ELSE Bind([ s EXCEPT !.learned_clauses[list[i]] =
                  ConstraintUndo(@, last_assignment.variable_index,
                                 last_assignment.variable_sign).c ],
              LAMBDA s1 : UndoLearned(s1, last_assignment, list, i + 1))

\* Solver::undo_last_assignment (the top of the trail is an Assignment)
undo_last_assignment(s) ==
    Bind(s.assignment_stack[Len(s.assignment_stack)], LAMBDA last_assignment :
      Bind([ s EXCEPT
               !.assignment_stack = SubSeq(@, 1, Len(@) - 1),
               !.assignments[last_assignment.variable_index] = None,
               !.number_unassigned_variables = @ + 1,
               !.variable_in_scope = @ \cup { last_assignment.variable_index } ],
           LAMBDA s1 :
        Bind(UndoConstraints(s1, last_assignment,
               s1.pseudo_boolean_formula.constraints_by_variable[
                  last_assignment.variable_index], 1),
             LAMBDA s2 :
               UndoLearned(s2, last_assignment,
                  s2.learned_clauses_by_variables[last_assignment.variable_index], 1))))

(***************************************************************************)
(* Hypergraph (hypergraph.rs).  Vec positions are 0-based in the code; a   *)
(* sequence keeps Vec element i at position i + 1.                         *)
(***************************************************************************)
At(seq, i) == seq[i + 1]

RECURSIVE UnsatisfiedOf(_, _, _)
\* tmp_constraint_indexes: the unsatisfied constraints among list, in order
UnsatisfiedOf(s, list, i) ==
    IF i > Len(list) THEN << >>
    ELSE IF is_unsatisfied(s.pseudo_boolean_formula.constraints[list[i]])
         THEN << list[i] >> \o UnsatisfiedOf(s, list, i + 1)
         ELSE UnsatisfiedOf(s, list, i + 1)

RECURSIVE AddPins(_, _)
\* the pins pushed for one variable, new constraints numbered on the way
AddPins(hypergraph, tmp_constraint_indexes) ==
    IF tmp_constraint_indexes = << >> THEN hypergraph
    ELSE LET constraint_index == Head(tmp_constraint_indexes) IN
         IF constraint_index \in DOMAIN hypergraph.constraint_index_map_reverse
         THEN Bind([ hypergraph EXCEPT
                       !.pins = Append(@,
                          hypergraph.constraint_index_map_reverse[constraint_index]) ],
                   LAMBDA h1 : AddPins(h1, Tail(tmp_constraint_indexes)))
         ELSE Bind([ hypergraph EXCEPT
                       !.constraint_index_map = Append(@, constraint_index),
                       !.constraint_index_map_reverse =
                           MapInsert(@, constraint_index,
                                     hypergraph.current_constraint_index),
                       !.current_constraint_index = @ + 1,
                       !.pins = Append(@, hypergraph.current_constraint_index) ],
                   LAMBDA h1 : AddPins(h1, Tail(tmp_constraint_indexes)))

RECURSIVE HypergraphLoop(_, _, _)
HypergraphLoop(s, variables, hypergraph) ==
    IF variables = << >> THEN hypergraph
    ELSE LET variable == Head(variables) IN
         IF s.assignments[variable].some
         THEN HypergraphLoop(s, Tail(variables), hypergraph)
         ELSE Bind(UnsatisfiedOf(s,
                     s.pseudo_boolean_formula.constraints_by_variable[variable], 1),
                   LAMBDA tmp_constraint_indexes :
                 IF Len(tmp_constraint_indexes) > 0
                 THEN Bind(AddPins(
                             [ hypergraph EXCEPT
                                 !.variable_index_map = Append(@, variable),
                                 !.variable_index_map_reverse =
                                     MapInsert(@, variable,
                                               hypergraph.current_variable_index),
                                 !.current_variable_index = @ + 1 ],
                             tmp_constraint_indexes),
                           LAMBDA h1 :
                        Bind([ h1 EXCEPT !.x_pins = Append(@, Len(h1.pins)) ],
                             LAMBDA h2 : HypergraphLoop(s, Tail(variables), h2)))
                 ELSE Bind([ hypergraph EXCEPT
                               !.single_variables = @ \cup { variable } ],
                           LAMBDA h2 : HypergraphLoop(s, Tail(variables), h2)))

\* Hypergraph::new
NewHypergraph(s) ==
    HypergraphLoop(s, SortedSeq(s.variable_in_scope),
        [ pins |-> << >>, x_pins |-> << 0 >>,
          variable_index_map |-> << >>, variable_index_map_reverse |-> EmptyMap,
          current_variable_index |-> 0,
          constraint_index_map |-> << >>, constraint_index_map_reverse |-> EmptyMap,
          current_constraint_index |-> 0,
          single_variables |-> {} ])

\* no label yet (None) in the partvec of find_disconnected_components
Unlabelled == -1

\* PushPinsOf that pushes nothing: the constraints that share a variable are
\* not visited from one another
PushPinsOf_Unlinked(hypergraph, keys, to_visit) == to_visit

RECURSIVE PushPinsOf(_, _, _)
\* to_visit after the pushes for the unassigned literals keys of one
\* constraint
PushPinsOf(hypergraph, keys, to_visit) ==
    IF keys = << >> THEN to_visit
    ELSE Bind(hypergraph.variable_index_map_reverse[Head(keys)], LAMBDA hg_index :
         Bind(At(hypergraph.x_pins, hg_index), LAMBDA from :
         Bind(At(hypergraph.x_pins, hg_index + 1), LAMBDA to :
         Bind(to_visit \o [ k \in 1..(to - from) |-> At(hypergraph.pins, from + k - 1) ],
              LAMBDA pushed : PushPinsOf(hypergraph, Tail(keys), pushed)))))

\* the first position i >= from with no label, or Len(partvec) if none
FirstUnlabelled(partvec, from) ==
    IF \E i \in from..(Len(partvec) - 1) : At(partvec, i) = Unlabelled
    THEN Min({ i \in from..(Len(partvec) - 1) : At(partvec, i) = Unlabelled })
    ELSE Len(partvec)

RECURSIVE FindLoop(_, _, _, _, _, _, _)
\* the loops of find_disconnected_components: the label vector and the
\* last label (label is current_partition_label); panic when an unassigned
\* literal of a visited constraint is no vertex of the hypergraph (unwrap of
\* variable_index_map_reverse.get)
FindLoop(s, hypergraph, partvec, to_visit, number_visited, last_visited, label) ==
    IF to_visit # << >>
    THEN Bind(to_visit[Len(to_visit)], LAMBDA constraint_index :
         Bind(SubSeq(to_visit, 1, Len(to_visit) - 1), LAMBDA rest :
            IF At(partvec, constraint_index) # Unlabelled
            THEN FindLoop(s, hypergraph, partvec, rest, number_visited,
                          last_visited, label)
            ELSE Bind(s.pseudo_boolean_formula.constraints[
                         At(hypergraph.constraint_index_map, constraint_index)],
                      LAMBDA constraint :
                    IF ~(DOMAIN constraint.unassigned_literals
                           \subseteq DOMAIN hypergraph.variable_index_map_reverse)
                    THEN [ panic |-> TRUE, partvec |-> << >>, label |-> 0 ]
                    ELSE Bind(PushPinsOf(hypergraph,
                                 SortedSeq(DOMAIN constraint.unassigned_literals), rest),
                              LAMBDA pushed :
                           Bind([ partvec EXCEPT
                                    ![constraint_index + 1] = label ],
                                LAMBDA labelled :
                                  FindLoop(s, hypergraph, labelled, pushed,
                                           number_visited + 1, last_visited,
                                           label))))))
    ELSE IF number_visited = Len(partvec)
         THEN [ panic |-> FALSE, partvec |-> partvec, label |-> label ]
         ELSE Bind(FirstUnlabelled(partvec, last_visited), LAMBDA i :
                FindLoop(s, hypergraph, partvec, << i >>, number_visited, i,
                         label + 1))

\* find_disconnected_components reporting no split when the constraints are
\* connected, single variables or not
find_disconnected_components_IgnoresSingles(hypergraph, s) ==
    IF hypergraph.current_constraint_index <= 1
    THEN [ some |-> FALSE, partvec |-> << >>, panic |-> FALSE ]
    ELSE Bind(FindLoop(s, hypergraph,
                 [ i \in 1..hypergraph.current_constraint_index |-> Unlabelled ],
                 << 0 >>, 0, 0, 0),
              LAMBDA r :
            IF r.panic THEN [ some |-> FALSE, partvec |-> << >>, panic |-> TRUE ]
            ELSE IF r.label = 0
                 THEN [ some |-> FALSE, partvec |-> << >>, panic |-> FALSE ]
                 ELSE [ some |-> TRUE, partvec |-> r.partvec, panic |-> FALSE ])

\* find_disconnected_components numbering every constraint of the
\* hypergraph by its position instead of its component
find_disconnected_components_LabelsByPosition(hypergraph, s) ==
    IF hypergraph.current_constraint_index <= 1
    THEN [ some |-> FALSE, partvec |-> << >>, panic |-> FALSE ]
    ELSE [ some |-> TRUE,
           partvec |-> [ i \in 1..hypergraph.current_constraint_index |-> i - 1 ],
           panic |-> FALSE ]

\* Hypergraph::find_disconnected_components:
\* [some |-> a split exists, partvec |-> the labels, panic]
find_disconnected_components(hypergraph, s) ==
    IF hypergraph.current_constraint_index <= 1
    THEN [ some |-> FALSE, partvec |-> << >>, panic |-> FALSE ]
    ELSE Bind(FindLoop(s, hypergraph,
                 [ i \in 1..hypergraph.current_constraint_index |-> Unlabelled ],
                 << 0 >>, 0, 0, 0),
              LAMBDA r :
            IF r.panic THEN [ some |-> FALSE, partvec |-> << >>, panic |-> TRUE ]
            ELSE IF r.label = 0 /\ Cardinality(hypergraph.single_variables) = 0
                 THEN [ some |-> FALSE, partvec |-> << >>, panic |-> FALSE ]
                 ELSE [ some |-> TRUE, partvec |-> r.partvec, panic |-> FALSE ])

EmptyComponent ==
    [ variables |-> {}, number_unassigned_variables |-> 0,
      number_unsat_constraints |-> 0, constraint_indexes_in_scope |-> {} ]

RECURSIVE FillComponents(_, _, _, _, _)
\* the loop of create_partition over the labelled constraints
FillComponents(s, hypergraph, partvec, index, components) ==
    IF index >= Len(partvec) THEN components
    ELSE Bind(At(hypergraph.constraint_index_map, index), LAMBDA constraint_index :
         Bind(At(partvec, index), LAMBDA partition_number :
         Bind(s.pseudo_boolean_formula.constraints[constraint_index], LAMBDA constraint :
         Bind(At(components, partition_number), LAMBDA component :
         Bind(DOMAIN constraint.unassigned_literals \ component.variables,
              LAMBDA new_variables :
         Bind(IF is_unsatisfied(constraint)
              THEN [ components EXCEPT ![partition_number + 1] =
                       [ variables |-> component.variables \cup new_variables,
                         number_unassigned_variables |->
                             component.number_unassigned_variables
                               + Cardinality(new_variables),
                         number_unsat_constraints |->
                             component.number_unsat_constraints + 1,
                         constraint_indexes_in_scope |->
                             component.constraint_indexes_in_scope
                               \cup { constraint_index } ] ]
              ELSE components,
              LAMBDA filled :
                FillComponents(s, hypergraph, partvec, index + 1, filled)))))))

\* the largest label of partvec
MaxLabel(partvec) ==
    IF partvec = << >> THEN 0
    ELSE CHOOSE m \in Range(partvec) : \A x \in Range(partvec) : x <= m

RECURSIVE EmptyComponents(_)
\* the list of n empty components create_partition starts from
EmptyComponents(n) ==
    IF n = 0 THEN << >> ELSE Append(EmptyComponents(n - 1), EmptyComponent)

\* create_partition without the component of the single variables
create_partition_DropsSingles(hypergraph, s, partvec) ==
    Bind(FillComponents(s, hypergraph, partvec, 0,
            EmptyComponents(MaxLabel(partvec) + 1)),
         LAMBDA labelled :
       [ e |-> "ComponentBranch",
         components |-> labelled,
         current_component |-> 0,
         previous_number_unsat_constraints |-> s.number_unsat_constraints,
         previous_number_unassigned_variables |-> s.number_unassigned_variables,
         previous_variables_in_scope |-> s.variable_in_scope,
         previous_constraint_indexes_in_scope |-> s.constraint_indexes_in_scope ])

\* create_partition counting one variable for the component of the single
\* variables, however many they are
create_partition_CountsOneSingle(hypergraph, s, partvec) ==
    Bind(FillComponents(s, hypergraph, partvec, 0,
            EmptyComponents(MaxLabel(partvec) + 1)),
         LAMBDA labelled :
       [ e |-> "ComponentBranch",
         components |-> IF Cardinality(hypergraph.single_variables) > 0
                        THEN Append(labelled,
                               [ variables |-> hypergraph.single_variables,
                                 number_unsat_constraints |-> 0,
                                 number_unassigned_variables |-> 1,
                                 constraint_indexes_in_scope |-> {} ])
                        ELSE labelled,
         current_component |-> 0,
         previous_number_unsat_constraints |-> s.number_unsat_constraints,
         previous_number_unassigned_variables |-> s.number_unassigned_variables,
         previous_variables_in_scope |-> s.variable_in_scope,
         previous_constraint_indexes_in_scope |-> s.constraint_indexes_in_scope ])

\* Hypergraph::create_partition: the ComponentBranch trail frame
create_partition(hypergraph, s, partvec) ==
    Bind(FillComponents(s, hypergraph, partvec, 0,
            EmptyComponents(MaxLabel(partvec) + 1)),
         LAMBDA labelled :
       [ e |-> "ComponentBranch",
         components |-> IF Cardinality(hypergraph.single_variables) > 0
                        THEN Append(labelled,
                               [ variables |-> hypergraph.single_variables,
                                 number_unsat_constraints |-> 0,
                                 number_unassigned_variables |->
                                     Cardinality(hypergraph.single_variables),
                                 constraint_indexes_in_scope |-> {} ])
                        ELSE labelled,
         current_component |-> 0,
         previous_number_unsat_constraints |-> s.number_unsat_constraints,
         previous_number_unassigned_variables |-> s.number_unassigned_variables,
         previous_variables_in_scope |-> s.variable_in_scope,
         previous_constraint_indexes_in_scope |-> s.constraint_indexes_in_scope ])

\* the nets (variables) whose pins lie in both parts of a 2-way partition
\* part of the constraints: edges_to_remove of partition() mapped through
\* variable_index_map (hypergraph_partitioning.rs)
CutVariables(hypergraph, part) ==
    Bind(SortedSeq({ i \in 0..(hypergraph.current_variable_index - 1) :
                       \E j, k \in At(hypergraph.x_pins, i)..
                                     (At(hypergraph.x_pins, i + 1) - 1) :
                          part[At(hypergraph.pins, j)] # part[At(hypergraph.pins, k)] }),
         LAMBDA nets :
           [ i \in 1..Len(nets) |-> At(hypergraph.variable_index_map, nets[i]) ])

\* the partition vectors the external partitioner (PaToH, k = 2) may return
PartVectors(hypergraph) ==
    [ 0..(hypergraph.current_constraint_index - 1) -> { 0, 1 } ]

\* Hypergraph::get_variables_for_cut under the partition vector part
get_variables_for_cut(hypergraph, part) ==
    IF hypergraph.current_constraint_index <= 1 \/ hypergraph.current_variable_index <= 1
    THEN << >>
    ELSE CutVariables(hypergraph, part)

(***************************************************************************)
(* Variable selection, cache and component branching (solver.rs).          *)
(***************************************************************************)
RECURSIVE MaxScoreLoop_Last(_, _, _)
\* the loop keeping the last candidate, whatever the scores
MaxScoreLoop_Last(s, candidates, best) ==
    IF candidates = << >> THEN best
    ELSE MaxScoreLoop_Last(s, Tail(candidates),
            [ some |-> TRUE, index |-> Head(candidates),
              value |-> s.vsids_scores[Head(candidates)] ])

RECURSIVE MaxScoreLoop(_, _, _)
\* the first element of candidates with the strictly largest VSIDS score:
\* [some, index, value]
MaxScoreLoop(s, candidates, best) ==
    IF candidates = << >> THEN best
    ELSE LET k == Head(candidates)
             v == s.vsids_scores[k]
         IN MaxScoreLoop(s, Tail(candidates),
               IF ~best.some \/ v > best.value
               THEN [ some |-> TRUE, index |-> k, value |-> v ]
               ELSE best)

NoMax == [ some |-> FALSE, index |-> 0, value |-> 0 ]

RECURSIVE ScanCandidates(_, _)
\* the order in which the last loop of get_next_variable visits variables:
\* per constraint its unassigned literals that are in scope
ScanCandidates(s, constraint_index) ==
    IF constraint_index \notin DOMAIN s.pseudo_boolean_formula.constraints THEN << >>
    ELSE LET constraint == s.pseudo_boolean_formula.constraints[constraint_index] IN
         (IF is_unsatisfied(constraint)
          THEN SortedSeq(DOMAIN constraint.unassigned_literals \cap s.variable_in_scope)
          ELSE << >>)
         \o ScanCandidates(s, constraint_index + 1)

\* get_next_variable finding no variable when next_variables holds a cut
get_next_variable_DropsCut(s) ==
    IF Len(s.next_variables) > 0
    THEN [ s |-> [ s EXCEPT !.next_variables = << >> ], some |-> FALSE, index |-> 0 ]
    ELSE Bind(MaxScoreLoop(s, ScanCandidates(s, 0), NoMax), LAMBDA m :
           [ s |-> s, some |-> m.some, index |-> m.index ])

\* Solver::get_next_variable: [s, some, index]
get_next_variable(s) ==
    IF Len(s.next_variables) = 1
    THEN [ s |-> [ s EXCEPT !.next_variables = << >> ],
           some |-> TRUE, index |-> s.next_variables[1] ]
    ELSE IF Len(s.next_variables) > 0
    THEN [ s |-> s, some |-> TRUE,
           index |-> MaxScoreLoop(s, s.next_variables, NoMax).index ]
    ELSE Bind(MaxScoreLoop(s, ScanCandidates(s, 0), NoMax), LAMBDA m :
           [ s |-> s, some |-> m.some, index |-> m.index ])

\* Solver::decide: [s, some, index]; the sign of a decision is true
decide(s) ==
    IF s.number_unassigned_variables = 0
    THEN [ s |-> s, some |-> FALSE, index |-> 0 ]
    ELSE Bind(get_next_variable(s), LAMBDA r :
           IF r.some
           THEN [ s |-> [ r.s EXCEPT !.decision_level = @ + 1 ],
                  some |-> TRUE, index |-> r.index ]
           ELSE [ s |-> r.s, some |-> FALSE, index |-> 0 ])

\* calculate_hash over variable_in_scope and the constraint indexes only,
\* without the sum_true of the constraints
calculate_hash_WithoutSums(s) ==
    Bind(SortedSeq(s.constraint_indexes_in_scope), LAMBDA in_scope :
      [ variables_in_scope |-> s.variable_in_scope,
        sums |-> [ i \in 1..Len(in_scope) |-> << in_scope[i], 0 >> ] ])

\* calculate_hash: the data the 64-bit fingerprint is computed over, the
\* hash taken as collision-free
calculate_hash(s) ==
    Bind(SortedSeq(s.constraint_indexes_in_scope), LAMBDA in_scope :
      [ variables_in_scope |-> s.variable_in_scope,
        sums |-> [ i \in 1..Len(in_scope) |->
                     << in_scope[i],
                        s.pseudo_boolean_formula.constraints[in_scope[i]].sum_true >> ] ])

\* Solver::cache
CacheInsert(s, mc, ddnnf_ref) ==
    IF s.number_unsat_constraints > 0
    THEN [ s EXCEPT
             !.cache = MapInsert(@, calculate_hash(s),
                                 [ mc |-> mc, ddnnf_ref |-> ddnnf_ref ]),
             !.statistics.cache_entries = @ + 1 ]
    ELSE s

\* Solver::get_cached_result
get_cached_result(s) ==
    Bind(calculate_hash(s), LAMBDA hash :
      IF hash \in DOMAIN s.cache
      THEN [ some |-> TRUE, value |-> s.cache[hash] ]
      ELSE [ some |-> FALSE, value |-> [ mc |-> 0, ddnnf_ref |-> FalseLeave ] ])

RECURSIVE FilterNext(_, _)
\* the filter of next_variables at the head of to_disconnected_components
FilterNext(s, list) ==
    IF list = << >> THEN << >>
    ELSE IF ~s.assignments[Head(list)].some /\ Head(list) \in s.variable_in_scope
         THEN << Head(list) >> \o FilterNext(s, Tail(list))
         ELSE FilterNext(s, Tail(list))

\* Solver::to_disconnected_components when get_variables_for_cut returns nv
\* if it is called: [s, some, formula]
to_disconnected_components(s, nv) ==
    Bind([ s EXCEPT !.next_variables = FilterNext(s, @) ], LAMBDA s1 :
      IF s1.number_unsat_constraints > 1
      THEN Bind(NewHypergraph(s1), LAMBDA hypergraph :
           Bind(find_disconnected_components(hypergraph, s1), LAMBDA found :
              IF found.panic
              THEN [ s |-> [ s1 EXCEPT !.panic = "called Option::unwrap on a None value" ],
                     some |-> FALSE, formula |-> EmptyComponent ]
              ELSE IF found.some
              THEN [ s |-> s1, some |-> TRUE,
                     formula |-> create_partition(hypergraph, s1, found.partvec) ]
              ELSE [ s |-> IF s1.next_variables = << >>
                           THEN [ s1 EXCEPT !.next_variables = @ \o nv ]
                           ELSE s1,
                     some |-> FALSE, formula |-> EmptyComponent ]))
      ELSE [ s |-> s1, some |-> FALSE, formula |-> EmptyComponent ])

\* InstallComponent with number_unassigned_variables left as it was
InstallComponent_KeepsCount(s, branch, i) ==
    [ s EXCEPT
        !.number_unsat_constraints = At(branch.components, i).number_unsat_constraints,
        !.variable_in_scope = At(branch.components, i).variables,
        !.constraint_indexes_in_scope =
            At(branch.components, i).constraint_indexes_in_scope ]

\* the scope of component number i of a ComponentBranch frame
InstallComponent(s, branch, i) ==
    LET component == At(branch.components, i) IN
    [ s EXCEPT
        !.number_unsat_constraints = component.number_unsat_constraints,
        !.number_unassigned_variables = component.number_unassigned_variables,
        !.variable_in_scope = component.variables,
        !.constraint_indexes_in_scope = component.constraint_indexes_in_scope ]

\* Solver::branch_components: [s, branched]
branch_components(s, nv) ==
    Bind(to_disconnected_components(s, nv), LAMBDA r :
      IF r.some
      THEN [ s |-> [ InstallComponent(r.s, r.formula, 0) EXCEPT
                       !.assignment_stack = Append(@, r.formula) ],
             branched |-> TRUE ]
      ELSE [ s |-> r.s, branched |-> FALSE ])

\* the values get_variables_for_cut may return in the main-loop step taken
\* from s: the cuts of the partition vectors of the hypergraph of s when it
\* reaches partition(), and the empty list when it is not called
PartitionerChoices(s) ==
    IF s.number_unsat_constraints <= 1 \/ get_cached_result(s).some
    THEN { << >> }
    ELSE Bind([ s EXCEPT !.next_variables = FilterNext(s, @) ], LAMBDA s1 :
         Bind(NewHypergraph(s1), LAMBDA hypergraph :
           IF /\ s1.next_variables = << >>
              /\ hypergraph.current_constraint_index > 1
              /\ hypergraph.current_variable_index > 1
              /\ ~find_disconnected_components(hypergraph, s1).some
           THEN { get_variables_for_cut(hypergraph, part) :
                    part \in PartVectors(hypergraph) }
           ELSE { << >> }))

\* get_variables_for_cut as an arbitrary subset of the variables of the
\* hypergraph of s, listed in the order of their nets as CutVariables lists
\* them, in the main-loop step taken from s; the empty list when the step
\* does not call it
AnyCutChoices(s) ==
    IF s.number_unsat_constraints <= 1 \/ get_cached_result(s).some
    THEN { << >> }
    ELSE Bind([ s EXCEPT !.next_variables = FilterNext(s, @) ], LAMBDA s1 :
         Bind(NewHypergraph(s1), LAMBDA hypergraph :
           IF /\ s1.next_variables = << >>
              /\ ~find_disconnected_components(hypergraph, s1).some
           THEN { SelectSeq(hypergraph.variable_index_map, LAMBDA v : v \in S) :
                    S \in SUBSET Range(hypergraph.variable_index_map) }
           ELSE { << >> }))

(***************************************************************************)
(* Conflict analysis (solver.rs, feature clause_learning).                 *)
(***************************************************************************)
RECURSIVE SeedReasons(_, _, _, _)
\* the first loop of analyze over the assignments of the conflicting
\* constraint, and the loop over new_reasons (with_seen: the latter skips
\* propagated reasons already seen and counts a reason only once)
SeedReasons(s, reasons, keys, st) ==
    IF keys = << >> THEN st
    ELSE Bind(Head(keys), LAMBDA index :
         Bind(reasons[index], LAMBDA r :
         Bind(IF r.kind.k = "Propagated"
              THEN IF st.with_seen /\ index \in st.seen
                   THEN st
                   ELSE [ st EXCEPT
                            !.number_propagated_reasons =
                                IF s.decision_level = r.decision_level
                                   /\ (~st.with_seen
                                       \/ index \notin DOMAIN st.reason_set_propagated)
                                THEN @ + 1 ELSE @,
                            !.reason_set_propagated = MapInsert(@, index, r) ]
              ELSE [ st EXCEPT
                       !.decision_node_found =
                           @ \/ s.decision_level = r.decision_level,
                       !.reason_set_decision = MapInsert(@, index, r) ],
              LAMBDA st1 : SeedReasons(s, reasons, Tail(keys), st1))))

ConstraintAt(s, constraint_index) ==
    IF constraint_index.t = "Normal"
    THEN s.pseudo_boolean_formula.constraints[constraint_index.i]
    ELSE s.learned_clauses[constraint_index.i]

\* the end of an iteration of the while loop of analyze: the entry is
\* marked seen and the next trail entry is fetched, which panics below the
\* bottom of the trail
NextEntry(s, st, next_variable_index) ==
    [ st EXCEPT
        !.seen = @ \cup { next_variable_index },
        !.counter = @ + 1,
        !.panic = IF st.counter + 1 > Len(s.assignment_stack)
                  THEN "attempt to subtract with overflow" ELSE @ ]

\* the while loop of analyze left before its first iteration
AnalyzeLoop_Stops(s, st) == st

RECURSIVE AnalyzeLoop(_, _)
\* the while loop of analyze; st.counter is the distance of the current
\* trail entry from the top of the trail
AnalyzeLoop(s, st) ==
    IF st.panic # "" THEN st
    ELSE IF ~(st.number_propagated_reasons > 1
              \/ (st.decision_node_found /\ st.number_propagated_reasons > 0))
    THEN st
    ELSE LET a == s.assignment_stack[Len(s.assignment_stack) - st.counter + 1] IN
         IF a.e = "ComponentBranch"
         THEN [ st EXCEPT !.panic = "Error while learning clause" ]
         ELSE LET next_variable_index == a.variable_index IN
              IF next_variable_index \notin st.seen
                 /\ next_variable_index \in DOMAIN st.reason_set_propagated
              THEN IF a.assignment_kind.k = "Propagated"
                   THEN Bind(calculate_reason(ConstraintAt(s, a.assignment_kind.c),
                                              next_variable_index),
                             LAMBDA new_reasons :
                          Bind(SeedReasons(s, new_reasons,
                                  SortedSeq(DOMAIN new_reasons),
                                  [ st EXCEPT
                                      !.number_propagated_reasons = @ - 1,
                                      !.reason_set_propagated =
                                          MapRemove(@, next_variable_index),
                                      !.with_seen = TRUE ]),
                               LAMBDA st2 :
                            Bind(NextEntry(s, st2, next_variable_index),
                                 LAMBDA st3 : AnalyzeLoop(s, st3))))
                   ELSE [ st EXCEPT !.panic = "Error while learning clause" ]
              ELSE Bind(NextEntry(s, st, next_variable_index),
                        LAMBDA st3 : AnalyzeLoop(s, st3))

\* a literal of the reason's own polarity, which the conflict's assignments
\* satisfy
LearnedLiteral_KeepsSign(index, reason) ==
    [ index |-> index, positive |-> reason.sign, factor |-> 1 ]

\* the literal analyze builds for a surviving reason
LearnedLiteral(index, reason) ==
    [ index |-> index, positive |-> ~reason.sign, factor |-> 1 ]

\* the constraint built from the decision reasons only, without the
\* propagated reasons that are left
LearnedConstraint_DecisionsOnly(learned_clauses_len, reason_set_propagated, reason_set_decision) ==
    [ index |-> LearnedClauseIndex(learned_clauses_len),
      literals |-> [ index \in DOMAIN reason_set_decision |->
                       LearnedLiteral(index,
                          IF index \in DOMAIN reason_set_decision
                          THEN reason_set_decision[index]
                          ELSE reason_set_propagated[index]) ],
      unassigned_literals |-> EmptyMap,
      degree |-> 1,
      sum_true |-> 0,
      sum_unassigned |-> 0,
      assignments |-> [ index \in DOMAIN reason_set_propagated \cup DOMAIN reason_set_decision |->
                          IF index \in DOMAIN reason_set_decision
                          THEN reason_set_decision[index]
                          ELSE reason_set_propagated[index] ],
      factor_sum |-> Cardinality(DOMAIN reason_set_propagated)
                       + Cardinality(DOMAIN reason_set_decision),
      constraint_type |-> "GreaterEqual",
      max_literal |-> [ index |-> 0, factor |-> 0, positive |-> FALSE ] ]

\* the constraint analyze builds from the two reason sets, max_literal not
\* yet computed
LearnedConstraint(learned_clauses_len, reason_set_propagated, reason_set_decision) ==
    [ index |-> LearnedClauseIndex(learned_clauses_len),
      literals |-> [ index \in DOMAIN reason_set_propagated \cup DOMAIN reason_set_decision |->
                       LearnedLiteral(index,
                          IF index \in DOMAIN reason_set_decision
                          THEN reason_set_decision[index]
                          ELSE reason_set_propagated[index]) ],
      unassigned_literals |-> EmptyMap,
      degree |-> 1,
      sum_true |-> 0,
      sum_unassigned |-> 0,
      assignments |-> [ index \in DOMAIN reason_set_propagated \cup DOMAIN reason_set_decision |->
                          IF index \in DOMAIN reason_set_decision
                          THEN reason_set_decision[index]
                          ELSE reason_set_propagated[index] ],
      factor_sum |-> Cardinality(DOMAIN reason_set_propagated)
                       + Cardinality(DOMAIN reason_set_decision),
      constraint_type |-> "GreaterEqual",
      max_literal |-> [ index |-> 0, factor |-> 0, positive |-> FALSE ] ]

\* Solver::analyze: [panic, constraint, variables]; the reasons are
\* [sign, kind, decision_level] as in Constraint.assignments
analyze(s, conflicting_variable_indexes) ==
    Bind(SeedReasons(s, conflicting_variable_indexes,
            SortedSeq(DOMAIN conflicting_variable_indexes),
            [ reason_set_propagated |-> EmptyMap,
              reason_set_decision |-> EmptyMap,
              seen |-> {}, counter |-> 1,
              number_propagated_reasons |-> 0,
              decision_node_found |-> FALSE,
              with_seen |-> FALSE, panic |-> "" ]),
         LAMBDA st1 :
      Bind(IF Len(s.assignment_stack) = 0
           THEN [ st1 EXCEPT !.panic = "attempt to subtract with overflow" ]
           ELSE AnalyzeLoop(s, st1),
           LAMBDA st :
        Bind(LearnedConstraint(Cardinality(DOMAIN s.learned_clauses),
                               st.reason_set_propagated, st.reason_set_decision),
             LAMBDA c :
               [ panic |-> st.panic,
                 constraint |-> [ c EXCEPT !.max_literal = get_max_literal(c) ],
                 variables |-> DOMAIN c.literals ])))

\* safe_conflict_clause that stores the clause without registering it in
\* learned_clauses_by_variables
safe_conflict_clause_Unregistered(s, constraint_index) ==
    IF ~s.clause_learning THEN s
    ELSE
    Bind(analyze(s, ConstraintAt(s, constraint_index).assignments), LAMBDA r :
      IF r.panic # "" THEN [ s EXCEPT !.panic = r.panic ]
      ELSE [ s EXCEPT
               !.vsids_scores = [ v \in DOMAIN @ |->
                                    IF v \in r.variables THEN @[v] + 1 ELSE @[v] ],
               !.learned_clauses =
                   MapInsert(@, Cardinality(DOMAIN s.learned_clauses), r.constraint) ])

\* Solver::safe_conflict_clause; the calls are compiled under
\* cfg(feature = "clause_learning"), which the field clause_learning of the
\* solver record stands for
safe_conflict_clause(s, constraint_index) ==
    IF ~s.clause_learning THEN s
    ELSE
    Bind(analyze(s, ConstraintAt(s, constraint_index).assignments), LAMBDA r :
      IF r.panic # "" THEN [ s EXCEPT !.panic = r.panic ]
      ELSE [ s EXCEPT
               !.vsids_scores = [ v \in DOMAIN @ |->
                                    IF v \in r.variables THEN @[v] + 1 ELSE @[v] ],
               !.learned_clauses_by_variables =
                   [ v \in DOMAIN @ |->
                       IF v \in r.variables
                       THEN Append(@[v], Cardinality(DOMAIN s.learned_clauses))
                       ELSE @[v] ],
               !.learned_clauses =
                   MapInsert(@, Cardinality(DOMAIN s.learned_clauses), r.constraint) ])

(***************************************************************************)
(* Solver::backtrack: one iteration of its loop.                           *)
(***************************************************************************)
Pop(seq) == SubSeq(seq, 1, Len(seq) - 1)
Top(seq) == seq[Len(seq)]

UnwrapPanic == "called Option::unwrap on a None value"

\* backtrack stopping at every frame of decision level 0, whatever node is
\* on top of ddnnf_stack
BacktrackLevelZero_AlwaysStops(s, last_assignment) ==
    IF s.ddnnf_stack = << >> THEN [ s |-> [ s EXCEPT !.panic = UnwrapPanic ], ret |-> "panic" ]
    ELSE [ s |-> s, ret |-> "false" ]

\* the frame is an Assignment of decision level 0
BacktrackLevelZero(s, last_assignment) ==
    IF s.ddnnf_stack = << >> THEN [ s |-> [ s EXCEPT !.panic = UnwrapPanic ], ret |-> "panic" ]
    ELSE Bind(Top(s.ddnnf_stack), LAMBDA ddnnf_node :
         Bind(LiteralLeave(last_assignment.variable_index,
                           last_assignment.variable_sign), LAMBDA literal :
            IF ddnnf_node.t = "False"
            THEN [ s |-> s, ret |-> "false" ]
            ELSE Bind(IF ddnnf_node.t = "And"
                      THEN IF \E i \in 1..Len(ddnnf_node.children) :
                                  ddnnf_node.children[i].t = "False"
                           THEN FalseLeave
                           ELSE AndNode(Append(ddnnf_node.children, literal), s.unique_id)
                      ELSE AndNode(<< ddnnf_node, literal >>, s.unique_id),
                      LAMBDA new_node :
                   Bind([ s EXCEPT
                            !.ddnnf_stack = Append(Pop(@), new_node),
                            !.unique_id = IF new_node.t = "And" THEN @ + 1 ELSE @ ],
                        LAMBDA s1 :
                          [ s |-> undo_last_assignment(s1), ret |-> "loop" ]))))

\* the frame is a Propagated Assignment of a decision level above 0
BacktrackPropagated(s, last_assignment) ==
    IF s.ddnnf_stack = << >> THEN [ s |-> [ s EXCEPT !.panic = UnwrapPanic ], ret |-> "panic" ]
    ELSE Bind(Top(s.ddnnf_stack), LAMBDA ddnnf_node :
         Bind(LiteralLeave(last_assignment.variable_index,
                           last_assignment.variable_sign), LAMBDA literal :
         Bind(IF ddnnf_node.t = "And"
              THEN AndNode(Append(ddnnf_node.children, literal), s.unique_id)
              ELSE IF ddnnf_node.t = "False" THEN FalseLeave
              ELSE IF ddnnf_node.t = "True" THEN AndNode(<< literal >>, s.unique_id)
              ELSE AndNode(<< ddnnf_node, literal >>, s.unique_id),
              LAMBDA new_node :
         Bind([ s EXCEPT
                  !.ddnnf_stack = Append(Pop(@), new_node),
                  !.unique_id = IF new_node.t = "And" THEN @ + 1 ELSE @ ],
              LAMBDA s1 : [ s |-> undo_last_assignment(s1), ret |-> "loop" ]))))

\* the count 0 pushed with TrueLeave instead of FalseLeave
PushFalse_WithTrueLeave(s) ==
    [ s EXCEPT !.result_stack = Append(@, 0),
               !.ddnnf_stack = Append(@, TrueLeave) ]

\* (0, FalseLeave) pushed on the two stacks
PushFalse(s) ==
    [ s EXCEPT !.result_stack = Append(@, 0),
               !.ddnnf_stack = Append(@, FalseLeave) ]

\* the end of the FirstDecision case with nothing pushed for a conflict
AfterSecondPropagate_PushesNothing(r) ==
    IF r.s.panic # "" THEN [ s |-> r.s, ret |-> "panic" ]
    ELSE IF r.conflict.t # "None"
    THEN Bind(safe_conflict_clause(r.s, r.conflict),
              LAMBDA s1 : [ s |-> s1,
                            ret |-> IF s1.panic # "" THEN "panic" ELSE "loop" ])
    ELSE [ s |-> r.s, ret |-> "true" ]

\* the end of the FirstDecision case: r is what propagate returned for the
\* flipped decision
AfterSecondPropagate(r) ==
    IF r.s.panic # "" THEN [ s |-> r.s, ret |-> "panic" ]
    ELSE IF r.conflict.t # "None"
    THEN Bind(safe_conflict_clause(r.s, r.conflict),
              LAMBDA s1 : [ s |-> PushFalse(s1),
                            ret |-> IF s1.panic # "" THEN "panic" ELSE "loop" ])
    ELSE [ s |-> r.s, ret |-> "true" ]

\* the FirstDecision undone and made again as it was
BacktrackFirstDecision_Repeats(s, last_assignment) ==
    Bind(undo_last_assignment(s),
         LAMBDA s1 : Bind(SolverPropagate(s1, last_assignment.variable_index,
                                          last_assignment.variable_sign, FirstDecision),
                          AfterSecondPropagate))

\* the FirstDecision undone and made again with its sign as a SecondDecision
BacktrackFirstDecision_KeepsSign(s, last_assignment) ==
    Bind(undo_last_assignment(s),
         LAMBDA s1 : Bind(SolverPropagate(s1, last_assignment.variable_index,
                                          last_assignment.variable_sign, SecondDecision),
                          AfterSecondPropagate))

\* the frame is a FirstDecision
BacktrackFirstDecision(s, last_assignment) ==
    Bind(undo_last_assignment(s),
         LAMBDA s1 : Bind(SolverPropagate(s1, last_assignment.variable_index,
                                          ~last_assignment.variable_sign, SecondDecision),
                          AfterSecondPropagate))

\* WithDecisionLiteral that leaves a TrueLeave branch as it is
WithDecisionLiteral_KeepsTrue(d, lit, and_id) ==
    IF d.t \in { "True", "False" } THEN d
    ELSE IF d.t = "And" THEN AndNode(Append(d.children, lit), and_id)
    ELSE AndNode(<< lit, d >>, and_id)

\* WithDecisionLiteral that leaves an AndNode branch as it is
WithDecisionLiteral_SkipsAnd(d, lit, and_id) ==
    IF d.t = "True" THEN lit
    ELSE IF d.t \in { "False", "And" } THEN d
    ELSE AndNode(<< lit, d >>, and_id)

\* the attachment that wraps an AndNode like any other node instead of
\* extending its child list
WithDecisionLiteral_WrapsAnd(d, lit, and_id) ==
    IF d.t = "True" THEN lit
    ELSE IF d.t = "False" THEN d
    ELSE AndNode(<< lit, d >>, and_id)

\* a branch node of a finished decision with its decision literal
\* attached: lit is the LiteralLeave of the branch, and_id the id of an
\* AndNode built for it
WithDecisionLiteral(d, lit, and_id) ==
    IF d.t = "True" THEN lit
    ELSE IF d.t = "False" THEN d
    ELSE IF d.t = "And" THEN AndNode(Append(d.children, lit), and_id)
    ELSE AndNode(<< lit, d >>, and_id)

\* the SecondDecision case with the node of the positive branch as the
\* first child of the OrNode
BacktrackSecondDecision_PositiveFirst(s, last_assignment, node_id) ==
    IF Len(s.result_stack) < 2 \/ Len(s.ddnnf_stack) < 2
    THEN [ s |-> [ s EXCEPT !.panic = UnwrapPanic ], ret |-> "panic" ]
    ELSE Bind(s.result_stack[Len(s.result_stack)]
                + s.result_stack[Len(s.result_stack) - 1], LAMBDA res :
         Bind(WithDecisionLiteral(s.ddnnf_stack[Len(s.ddnnf_stack)],
                 LiteralLeave(last_assignment.variable_index,
                              last_assignment.variable_sign), node_id), LAMBDA d1 :
         Bind(WithDecisionLiteral(s.ddnnf_stack[Len(s.ddnnf_stack) - 1],
                 LiteralLeave(last_assignment.variable_index,
                              ~last_assignment.variable_sign), s.unique_id), LAMBDA d2 :
         Bind(IF d2.t = "And" THEN s.unique_id + 1 ELSE s.unique_id,
              LAMBDA id_after_d2 :
         Bind(IF d1.t = "False" /\ d2.t = "False" THEN FalseLeave
              ELSE IF d2.t = "False" THEN d1
              ELSE IF d1.t = "False" THEN d2
              ELSE OrNode(<< d2, d1 >>, id_after_d2), LAMBDA d_res :
         Bind([ s EXCEPT
                  !.result_stack = Append(Pop(Pop(@)), res),
                  !.ddnnf_stack = Append(Pop(Pop(@)), d_res),
                  !.unique_id = IF d_res.t = "Or" THEN id_after_d2 + 1
                                ELSE id_after_d2,
                  !.next_variables = << >>,
                  !.decision_level = @ - 1 ], LAMBDA s1 :
         Bind(undo_last_assignment(s1), LAMBDA s2 :
           [ s |-> CacheInsert(s2, res, d_res), ret |-> "loop" ])))))))

\* the frame is a SecondDecision: node_id is the id drawn at the head of
\* the iteration
BacktrackSecondDecision(s, last_assignment, node_id) ==
    IF Len(s.result_stack) < 2 \/ Len(s.ddnnf_stack) < 2
    THEN [ s |-> [ s EXCEPT !.panic = UnwrapPanic ], ret |-> "panic" ]
    ELSE Bind(s.result_stack[Len(s.result_stack)]
                + s.result_stack[Len(s.result_stack) - 1], LAMBDA res :
         Bind(WithDecisionLiteral(s.ddnnf_stack[Len(s.ddnnf_stack)],
                 LiteralLeave(last_assignment.variable_index,
                              last_assignment.variable_sign), node_id), LAMBDA d1 :
         Bind(WithDecisionLiteral(s.ddnnf_stack[Len(s.ddnnf_stack) - 1],
                 LiteralLeave(last_assignment.variable_index,
                              ~last_assignment.variable_sign), s.unique_id), LAMBDA d2 :
         Bind(IF d2.t = "And" THEN s.unique_id + 1 ELSE s.unique_id,
              LAMBDA id_after_d2 :
         Bind(IF d1.t = "False" /\ d2.t = "False" THEN FalseLeave
              ELSE IF d2.t = "False" THEN d1
              ELSE IF d1.t = "False" THEN d2
              ELSE OrNode(<< d1, d2 >>, id_after_d2), LAMBDA d_res :
         Bind([ s EXCEPT
                  !.result_stack = Append(Pop(Pop(@)), res),
                  !.ddnnf_stack = Append(Pop(Pop(@)), d_res),
                  !.unique_id = IF d_res.t = "Or" THEN id_after_d2 + 1
                                ELSE id_after_d2,
                  !.next_variables = << >>,
                  !.decision_level = @ - 1 ], LAMBDA s1 :
         Bind(undo_last_assignment(s1), LAMBDA s2 :
           [ s |-> CacheInsert(s2, res, d_res), ret |-> "loop" ])))))))

RECURSIVE Product(_)
Product(seq) == IF seq = << >> THEN 1 ELSE Head(seq) * Product(Tail(seq))

\* the sequence reversed: the order in which a stack gives up its elements
Reverse(seq) == [ i \in 1..Len(seq) |-> seq[Len(seq) - i + 1] ]

\* the ComponentBranch case without the restoration of the scope saved in
\* the frame
BacktrackComponentBranch_KeepsScope(s, last_branch, node_id) ==
    LET n == Len(last_branch.components) IN
    IF last_branch.current_component = n - 1
    THEN IF Len(s.result_stack) < n \/ Len(s.ddnnf_stack) < n
         THEN [ s |-> [ s EXCEPT !.panic = UnwrapPanic ], ret |-> "panic" ]
         ELSE Bind(Reverse(SubSeq(s.ddnnf_stack, Len(s.ddnnf_stack) - n + 1,
                                  Len(s.ddnnf_stack))), LAMBDA child_nodes :
                 [ s |-> [ s EXCEPT
                             !.ddnnf_stack =
                                 Append(SubSeq(@, 1, Len(@) - n),
                                        IF \E i \in 1..n : child_nodes[i].t = "False"
                                        THEN FalseLeave
                                        ELSE AndNode(child_nodes, node_id)),
                             !.result_stack =
                                 Append(SubSeq(@, 1, Len(@) - n),
                                        Product(SubSeq(@, Len(@) - n + 1, Len(@)))),
                             !.next_variables = << >>,
                             !.assignment_stack = Pop(@) ],
                   ret |-> "loop" ])
    ELSE Bind([ last_branch EXCEPT !.current_component = @ + 1 ], LAMBDA next_branch :
           [ s |-> [ InstallComponent(s, next_branch, next_branch.current_component)
                       EXCEPT !.assignment_stack = Append(Pop(@), next_branch) ],
             ret |-> "true" ])

\* the frame is a ComponentBranch
BacktrackComponentBranch(s, last_branch, node_id) ==
    LET n == Len(last_branch.components) IN
    IF last_branch.current_component = n - 1
    THEN IF Len(s.result_stack) < n \/ Len(s.ddnnf_stack) < n
         THEN [ s |-> [ s EXCEPT !.panic = UnwrapPanic ], ret |-> "panic" ]
         ELSE Bind(Reverse(SubSeq(s.ddnnf_stack, Len(s.ddnnf_stack) - n + 1,
                                  Len(s.ddnnf_stack))), LAMBDA child_nodes :
                 [ s |-> [ s EXCEPT
                             !.ddnnf_stack =
                                 Append(SubSeq(@, 1, Len(@) - n),
                                        IF \E i \in 1..n : child_nodes[i].t = "False"
                                        THEN FalseLeave
                                        ELSE AndNode(child_nodes, node_id)),
                             !.result_stack =
                                 Append(SubSeq(@, 1, Len(@) - n),
                                        Product(SubSeq(@, Len(@) - n + 1, Len(@)))),
                             !.next_variables = << >>,
                             !.number_unassigned_variables =
                                 last_branch.previous_number_unassigned_variables,
                             !.number_unsat_constraints =
                                 last_branch.previous_number_unsat_constraints,
                             !.variable_in_scope = last_branch.previous_variables_in_scope,
                             !.constraint_indexes_in_scope =
                                 last_branch.previous_constraint_indexes_in_scope,
                             !.assignment_stack = Pop(@) ],
                   ret |-> "loop" ])
    ELSE Bind([ last_branch EXCEPT !.current_component = @ + 1 ], LAMBDA next_branch :
           [ s |-> [ InstallComponent(s, next_branch, next_branch.current_component)
                       EXCEPT !.assignment_stack = Append(Pop(@), next_branch) ],
             ret |-> "true" ])

\* one iteration of the loop of Solver::backtrack: [s, ret], ret "loop" for
\* the next iteration, "true" / "false" for the value backtrack returns
BacktrackStep(s) ==
    Bind([ s EXCEPT !.unique_id = @ + 1 ], LAMBDA s0 :
      IF s0.assignment_stack = << >> THEN [ s |-> s0, ret |-> "false" ]
      ELSE Bind(Top(s0.assignment_stack), LAMBDA top_element :
            IF top_element.e = "ComponentBranch"
            THEN BacktrackComponentBranch(s0, top_element, s.unique_id)
            ELSE IF top_element.decision_level = 0
            THEN BacktrackLevelZero(s0, top_element)
            ELSE IF top_element.assignment_kind.k = "Propagated"
            THEN BacktrackPropagated(s0, top_element)
            ELSE IF top_element.assignment_kind = FirstDecision
            THEN BacktrackFirstDecision(s0, top_element)
            ELSE BacktrackSecondDecision(s0, top_element, s.unique_id)))

(***************************************************************************)
(* Solver::simplify and the loop of Solver::count.                         *)
(***************************************************************************)
RECURSIVE SimplifyConstraints(_, _, _)
\* the first loop of Solver::simplify from constraint number i:
\* [s, ok, propagation_set]
SimplifyConstraints(s, i, propagation_set) ==
    IF i \notin DOMAIN s.pseudo_boolean_formula.constraints
    THEN [ s |-> s, ok |-> TRUE, propagation_set |-> propagation_set ]
    ELSE Bind(s.pseudo_boolean_formula.constraints[i], LAMBDA constraint :
         Bind(ConstraintSimplify(constraint), LAMBDA r :
           CASE r.t = "Satisfied" ->
                   Bind([ s EXCEPT !.number_unsat_constraints = @ - 1,
                                   !.constraint_indexes_in_scope = @ \ { i } ],
                        LAMBDA s1 : SimplifyConstraints(s1, i + 1, propagation_set))
              [] r.t = "Unsatisfied" ->
                   [ s |-> s, ok |-> FALSE, propagation_set |-> propagation_set ]
              [] r.t \in { "ImpliedLiteral", "ImpliedLiteralList" } ->
                   Bind(propagation_set \o
                          [ k \in 1..Len(r.list) |->
                              [ index |-> r.list[k].index, sign |-> r.list[k].positive,
                                constraint_index |-> constraint.index ] ],
                        LAMBDA pushed : SimplifyConstraints(s, i + 1, pushed))
              [] OTHER -> SimplifyConstraints(s, i + 1, propagation_set)))

RECURSIVE SimplifyPropagate(_, _)
\* the second loop of Solver::simplify: [s, ok]
SimplifyPropagate(s, propagation_set) ==
    IF propagation_set = << >> THEN [ s |-> s, ok |-> TRUE ]
    ELSE Bind(SolverPropagate(s, Head(propagation_set).index,
                              Head(propagation_set).sign,
                              Propagated(Head(propagation_set).constraint_index)),
              LAMBDA r :
            IF r.s.panic # "" \/ r.conflict.t # "None"
            THEN [ s |-> r.s, ok |-> FALSE ]
            ELSE SimplifyPropagate(r.s, Tail(propagation_set)))

\* Solver::simplify: [s, ok]
SolverSimplify(s) ==
    Bind(SimplifyConstraints(s, 0, << >>), LAMBDA first :
      IF first.ok THEN SimplifyPropagate(first.s, first.propagation_set)
      ELSE [ s |-> first.s, ok |-> FALSE ])

\* 2 * n in the place of 2^n
Pow2_Doubled(n) == 2 * n

RECURSIVE Pow2(_)
\* BigUint::from(2).pow(n)
Pow2(n) == IF n = 0 THEN 1 ELSE 2 * Pow2(n - 1)

\* PushResult without the push on ddnnf_stack
PushResult_CountOnly(s, mc, node) ==
    [ s EXCEPT !.result_stack = Append(@, mc),
               !.next_variables = << >> ]

\* a count and a node pushed on the two stacks and next_variables cleared,
\* as every branch of the loop of count does before it calls backtrack
PushResult(s, mc, node) ==
    [ s EXCEPT !.result_stack = Append(@, mc),
               !.ddnnf_stack = Append(@, node),
               !.next_variables = << >> ]

\* the end of the decide branch: r is what propagate returned for the
\* decision
AfterFirstPropagate(r) ==
    IF r.s.panic # "" THEN [ s |-> r.s, next |-> "loop" ]
    ELSE IF r.conflict.t # "None"
    THEN Bind(safe_conflict_clause(r.s, r.conflict),
              LAMBDA s1 : [ s |-> PushResult(s1, 0, FalseLeave), next |-> "backtrack" ])
    ELSE [ s |-> r.s, next |-> "loop" ]

\* the decide branch from the value decide returned
AfterDecide(decided_literal) ==
    IF ~decided_literal.some
    THEN [ s |-> PushResult(decided_literal.s, 0, FalseLeave), next |-> "backtrack" ]
    ELSE Bind(SolverPropagate(decided_literal.s, decided_literal.index, TRUE,
                              FirstDecision),
              AfterFirstPropagate)

\* the iteration from the value branch_components returned
AfterBranchComponents(b) ==
    IF b.branched \/ b.s.panic # "" THEN [ s |-> b.s, next |-> "loop" ]
    ELSE Bind(decide(b.s), AfterDecide)

\* one iteration of the loop of Solver::count up to its call of backtrack:
\* [s, next, branch], next "backtrack" when backtrack is called and "loop"
\* when the iteration ends without it, branch the branch of the loop taken:
\* "satisfied", "cache_hit", "branch" (branch_components returned true) or
\* "decide"
MainStep(s, nv) ==
    IF s.number_unsat_constraints <= 0
    THEN [ s |-> PushResult(s, Pow2(s.number_unassigned_variables), TrueLeave),
           next |-> "backtrack", branch |-> "satisfied" ]
    ELSE Bind(get_cached_result(s), LAMBDA cached_result :
      IF cached_result.some
      THEN [ s |-> [ PushResult(s, cached_result.value.mc,
                                cached_result.value.ddnnf_ref)
                       EXCEPT !.statistics.cache_hits = @ + 1 ],
             next |-> "backtrack", branch |-> "cache_hit" ]
      ELSE Bind(branch_components(s, nv), LAMBDA b :
           Bind(AfterBranchComponents(b), LAMBDA r :
             [ s |-> r.s, next |-> r.next,
               branch |-> IF b.branched THEN "branch" ELSE "decide" ])))

(***************************************************************************)
(* The Boolean circuit of a DAG node and the models of a formula.          *)
(***************************************************************************)
RECURSIVE VariablesOf(_)
\* the variables mentioned under a node
VariablesOf(node) ==
    IF node.t = "Lit" THEN { node.index }
    ELSE IF node.t \in { "And", "Or" }
    THEN UNION { VariablesOf(node.children[i]) : i \in 1..Len(node.children) }
    ELSE { }

RECURSIVE Eval(_, _)
\* the value of the circuit of a node under a total assignment
Eval(node, a) ==
    CASE node.t = "True" -> TRUE
      [] node.t = "False" -> FALSE
      [] node.t = "Lit" -> a[node.index] = node.positive
      [] node.t = "And" -> \A i \in 1..Len(node.children) : Eval(node.children[i], a)
      [] node.t = "Or" -> \E i \in 1..Len(node.children) : Eval(node.children[i], a)

RECURSIVE NodesOf(_)
\* the nodes of a DAG
NodesOf(node) ==
    IF node.t \in { "And", "Or" }
    THEN { node } \cup UNION { NodesOf(node.children[i]) : i \in 1..Len(node.children) }
    ELSE { node }

TotalAssignments(number_variables) == [ 0..(number_variables - 1) -> BOOLEAN ]

\* the total assignments over number_variables variables that satisfy a node
ModelsOfNode(node, number_variables) ==
    { a \in TotalAssignments(number_variables) : Eval(node, a) }

\* the sum of the factors of the literals of a constraint that are true
\* under a total assignment
RECURSIVE TrueSum(_, _, _)
TrueSum(c, keys, a) ==
    IF keys = << >> THEN 0
    ELSE (IF a[Head(keys)] = c.literals[Head(keys)].positive
          THEN c.literals[Head(keys)].factor ELSE 0)
         + TrueSum(c, Tail(keys), a)

\* whether a total assignment satisfies a stored constraint
ConstraintHolds(c, a) ==
    IF c.constraint_type = "GreaterEqual"
    THEN TrueSum(c, SortedSeq(DOMAIN c.literals), a) >= c.degree
    ELSE TrueSum(c, SortedSeq(DOMAIN c.literals), a) # c.degree

\* the total assignments that satisfy every constraint of a formula
ModelsOfFormula(formula) ==
    { a \in TotalAssignments(formula.number_variables) :
        \A i \in DOMAIN formula.constraints : ConstraintHolds(formula.constraints[i], a) }

(***************************************************************************)
(* The solver as a state machine.  The variables named like the fields of  *)
(* struct Solver hold the solver; pc is the position of Solver::count:     *)
(*   "simplify"   count has been called, simplify not yet                  *)
(*   "loop"       at the head of the loop of count                         *)
(*   "backtrack"  at the head of the loop of backtrack                     *)
(*   "return"     backtrack has returned false                             *)
(*   "done"       count has returned solver_result                         *)
(*   "panic"      the thread has panicked with the message in panic        *)
(***************************************************************************)
\* the solver the variables hold
Solver ==
    [ pseudo_boolean_formula |-> pseudo_boolean_formula,
      assignment_stack |-> assignment_stack,
      decision_level |-> decision_level,
      learned_clauses_by_variables |-> learned_clauses_by_variables,
      learned_clauses |-> learned_clauses,
      result_stack |-> result_stack,
      ddnnf_stack |-> ddnnf_stack,
      number_unsat_constraints |-> number_unsat_constraints,
      number_unassigned_variables |-> number_unassigned_variables,
      cache |-> cache,
      statistics |-> statistics,
      assignments |-> assignments,
      variable_in_scope |-> variable_in_scope,
      constraint_indexes_in_scope |-> constraint_indexes_in_scope,
      next_variables |-> next_variables,
      vsids_scores |-> vsids_scores,
      unique_id |-> unique_id,
      clause_learning |-> TRUE,
      panic |-> panic ]

\* the variables take the fields of the solver s
Install(s) ==
    /\ pseudo_boolean_formula' = s.pseudo_boolean_formula
    /\ assignment_stack' = s.assignment_stack
    /\ decision_level' = s.decision_level
    /\ learned_clauses_by_variables' = s.learned_clauses_by_variables
    /\ learned_clauses' = s.learned_clauses
    /\ result_stack' = s.result_stack
    /\ ddnnf_stack' = s.ddnnf_stack
    /\ number_unsat_constraints' = s.number_unsat_constraints
    /\ number_unassigned_variables' = s.number_unassigned_variables
    /\ cache' = s.cache
    /\ statistics' = s.statistics
    /\ assignments' = s.assignments
    /\ variable_in_scope' = s.variable_in_scope
    /\ constraint_indexes_in_scope' = s.constraint_indexes_in_scope
    /\ next_variables' = s.next_variables
    /\ vsids_scores' = s.vsids_scores
    /\ unique_id' = s.unique_id
    /\ panic' = s.panic

\* the solver of Install in the initial state
InstallInit(s) ==
    /\ pseudo_boolean_formula = s.pseudo_boolean_formula
    /\ assignment_stack = s.assignment_stack
    /\ decision_level = s.decision_level
    /\ learned_clauses_by_variables = s.learned_clauses_by_variables
    /\ learned_clauses = s.learned_clauses
    /\ result_stack = s.result_stack
    /\ ddnnf_stack = s.ddnnf_stack
    /\ number_unsat_constraints = s.number_unsat_constraints
    /\ number_unassigned_variables = s.number_unassigned_variables
    /\ cache = s.cache
    /\ statistics = s.statistics
    /\ assignments = s.assignments
    /\ variable_in_scope = s.variable_in_scope
    /\ constraint_indexes_in_scope = s.constraint_indexes_in_scope
    /\ next_variables = s.next_variables
    /\ vsids_scores = s.vsids_scores
    /\ unique_id = s.unique_id
    /\ panic = s.panic

NoResult == [ some |-> FALSE, model_count |-> 0, root_node |-> FalseLeave ]
NoConstraint == [ index |-> NormalConstraintIndex(0) ]

\* Solver::count up to the loop: simplify, and the return of (0, FalseLeave)
\* when it fails
Count_simplify ==
    /\ pc = "simplify"
    /\ \E s \in { Solver } : \E r \in { SolverSimplify(s) } :
       /\ Install(r.s)
       /\ pc' = IF r.s.panic # "" THEN "panic" ELSE IF r.ok THEN "loop" ELSE "done"
       /\ solver_result' = IF r.s.panic = "" /\ ~r.ok
                           THEN [ some |-> TRUE, model_count |-> 0,
                                  root_node |-> FalseLeave ]
                           ELSE solver_result
    /\ UNCHANGED << opb_file, the_constraint, initial_constraint, call_stack, printer >>

\* CountIteration with get_variables_for_cut returning an arbitrary subset of
\* the hypergraph's variables
CountIterationAnyCut(branch) ==
    \E s \in { Solver } : \E nv \in AnyCutChoices(s) :
       \E r \in { MainStep(s, nv) } :
          /\ r.branch = branch
          /\ Install(r.s)
          /\ pc' = IF r.s.panic # "" THEN "panic" ELSE r.next

\* an iteration of the loop of count that takes the branch named branch
CountIteration(branch) ==
    \E s \in { Solver } : \E nv \in PartitionerChoices(s) :
       \E r \in { MainStep(s, nv) } :
          /\ r.branch = branch
          /\ Install(r.s)
          /\ pc' = IF r.s.panic # "" THEN "panic" ELSE r.next

\* the iteration of a satisfied sub-formula: 2^number_unassigned_variables
\* and TrueLeave are pushed
Count_satisfied ==
    /\ pc = "loop"
    /\ number_unsat_constraints <= 0
    /\ CountIteration("satisfied")
    /\ UNCHANGED << opb_file, solver_result, the_constraint, initial_constraint, call_stack, printer >>

\* the iteration that finds the sub-formula in the cache
Count_cache_hit ==
    /\ pc = "loop"
    /\ number_unsat_constraints > 0
    /\ CountIteration("cache_hit")
    /\ UNCHANGED << opb_file, solver_result, the_constraint, initial_constraint, call_stack, printer >>

\* the iteration in which branch_components splits the sub-formula
Count_branch_components ==
    /\ pc = "loop"
    /\ number_unsat_constraints > 1
    /\ CountIteration("branch")
    /\ UNCHANGED << opb_file, solver_result, the_constraint, initial_constraint, call_stack, printer >>

\* the iteration that decides a variable and propagates the decision
Count_decide ==
    /\ pc = "loop"
    /\ number_unsat_constraints > 0
    /\ CountIteration("decide")
    /\ UNCHANGED << opb_file, solver_result, the_constraint, initial_constraint, call_stack, printer >>

\* the iteration that decides a variable, get_variables_for_cut returning an
\* arbitrary subset of the hypergraph's variables if it is called
Count_decide_any_cut ==
    /\ pc = "loop"
    /\ number_unsat_constraints > 0
    /\ CountIterationAnyCut("decide")
    /\ UNCHANGED << opb_file, solver_result, the_constraint, initial_constraint, call_stack, printer >>

\* the case of the loop of backtrack taken in s
BacktrackCase(s) ==
    IF s.assignment_stack = << >> THEN "empty"
    ELSE LET top_element == Top(s.assignment_stack) IN
         IF top_element.e = "ComponentBranch" THEN "component_branch"
         ELSE IF top_element.decision_level = 0 THEN "level_zero"
         ELSE IF top_element.assignment_kind.k = "Propagated" THEN "propagated"
         ELSE IF top_element.assignment_kind = FirstDecision THEN "first_decision"
         ELSE "second_decision"

\* an iteration of the loop of backtrack that takes the case named case
BacktrackIteration(case) ==
    \E s \in { Solver } :
       /\ BacktrackCase(s) = case
       /\ \E r \in { BacktrackStep(s) } :
          /\ Install(r.s)
          /\ pc' = CASE r.s.panic # "" -> "panic"
                     [] r.ret = "loop" -> "backtrack"
                     [] r.ret = "true" -> "loop"
                     [] OTHER -> "return"

\* backtrack over an assignment of decision level 0: it returns false
Backtrack_level_zero ==
    /\ pc = "backtrack"
    /\ BacktrackIteration("level_zero")
    /\ UNCHANGED << opb_file, solver_result, the_constraint, initial_constraint, call_stack, printer >>

\* backtrack over a propagated assignment
Backtrack_propagated ==
    /\ pc = "backtrack"
    /\ BacktrackIteration("propagated")
    /\ UNCHANGED << opb_file, solver_result, the_constraint, initial_constraint, call_stack, printer >>

\* backtrack over a first decision: the negated literal is propagated
Backtrack_first_decision ==
    /\ pc = "backtrack"
    /\ BacktrackIteration("first_decision")
    /\ UNCHANGED << opb_file, solver_result, the_constraint, initial_constraint, call_stack, printer >>

\* backtrack over a second decision: the two branches are combined
Backtrack_second_decision ==
    /\ pc = "backtrack"
    /\ BacktrackIteration("second_decision")
    /\ UNCHANGED << opb_file, solver_result, the_constraint, initial_constraint, call_stack, printer >>

\* backtrack over a ComponentBranch frame
Backtrack_component_branch ==
    /\ pc = "backtrack"
    /\ BacktrackIteration("component_branch")
    /\ UNCHANGED << opb_file, solver_result, the_constraint, initial_constraint, call_stack, printer >>

\* backtrack with an empty assignment stack: it returns false
Backtrack_empty ==
    /\ pc = "backtrack"
    /\ BacktrackIteration("empty")
    /\ UNCHANGED << opb_file, solver_result, the_constraint, initial_constraint, call_stack, printer >>

\* the return of count after backtrack has returned false
Count_return ==
    /\ pc = "return"
    /\ IF result_stack = << >> \/ ddnnf_stack = << >>
       THEN /\ Install([ Solver EXCEPT !.panic = UnwrapPanic ])
            /\ pc' = "panic"
            /\ UNCHANGED solver_result
       ELSE /\ Install([ Solver EXCEPT !.result_stack = Pop(@),
                                       !.ddnnf_stack = Pop(@) ])
            /\ pc' = "done"
            /\ solver_result' = [ some |-> TRUE, model_count |-> Top(result_stack),
                                  root_node |-> Top(ddnnf_stack) ]
    /\ UNCHANGED << opb_file, the_constraint, initial_constraint, call_stack, printer >>

(***************************************************************************)
(* DDNNFPrinter (ddnnf.rs).  A printer state p is a record of the fields   *)
(* of struct DDNNFPrinter, with 0 for the None of true_sink_id and         *)
(* false_sink_id (ids start at 1), result_string as the sequence of the    *)
(* lines written, and panic for the panic of print_node.  A node line      *)
(* "t 3 0" is [l |-> "node", kind |-> "t", id |-> 3]; an edge line         *)
(* "1 3 2 -1 0" is [l |-> "edge", from |-> 1, to |-> 3,                    *)
(* lits |-> << 2, -1 >>].                                                  *)
(***************************************************************************)
NodeLine(kind, id) == [ l |-> "node", kind |-> kind, id |-> id ]
EdgeLine(from, to, lits) == [ l |-> "edge", from |-> from, to |-> to, lits |-> lits ]

\* the printer run_not_rec constructs
NewPrinter ==
    [ true_sink_id |-> 0, false_sink_id |-> 0, current_node_id |-> 0,
      id_map |-> EmptyMap, edge_counter |-> 0, node_counter |-> 0,
      result_string |-> << >>, panic |-> "" ]

\* the text "{}{} " of a literal: the id with its sign
LiteralText(index, positive) == IF positive THEN index + 1 ELSE 0 - (index + 1)

\* local_implied_literals of an AndNode: its literal children in order
LocalImpliedLiterals(child_list) ==
    FlatMap(LAMBDA child : IF child.t = "Lit"
                           THEN << LiteralText(child.index, child.positive) >>
                           ELSE << >>,
            child_list)

\* the children of a node that are no LiteralLeave, in order
NonLiteralChildren(child_list) ==
    FlatMap(LAMBDA child : IF child.t = "Lit" THEN << >> ELSE << child >>, child_list)

\* the true sink created where print_node needs it and there is none;
\* counted says whether the place increments node_counter
WithTrueSink(p, counted) ==
    IF p.true_sink_id = 0
    THEN [ p EXCEPT !.true_sink_id = p.current_node_id + 1,
                    !.current_node_id = p.current_node_id + 1,
                    !.result_string = Append(@, NodeLine("t", p.current_node_id + 1)),
                    !.node_counter = IF counted THEN @ + 1 ELSE @ ]
    ELSE p

\* a new id given to the AndNode or OrNode node_id, with its header line
WithNewNode(p, kind, node_id) ==
    [ p EXCEPT !.current_node_id = p.current_node_id + 1,
               !.id_map = MapInsert(@, node_id, p.current_node_id + 1),
               !.result_string = Append(@, NodeLine(kind, p.current_node_id + 1)) ]

\* an edge line written to result_string
WithEdge(p, from, to, lits) ==
    [ p EXCEPT !.result_string = Append(@, EdgeLine(from, to, lits)) ]

RECURSIVE print_node(_, _, _, _)
RECURSIVE PrintChildren(_, _, _, _)
RECURSIVE PrintOrChildren(_, _, _, _)
\* DDNNFPrinter::print_node: the printer after the call
print_node(p, node, parent_id, implied_literals) ==
    IF p.panic # "" THEN p
    ELSE
    CASE node.t = "True" ->
           Bind(WithTrueSink(p, FALSE), LAMBDA p1 :
             IF parent_id > 0
             THEN [ WithEdge(p1, parent_id, p1.true_sink_id, implied_literals) EXCEPT
                      !.edge_counter = @ + 1, !.node_counter = @ + 1 ]
             ELSE p1)
      [] node.t = "False" ->
           Bind(IF p.false_sink_id = 0
                THEN [ p EXCEPT !.false_sink_id = p.current_node_id + 1,
                                !.current_node_id = p.current_node_id + 1,
                                !.result_string =
                                    Append(@, NodeLine("f", p.current_node_id + 1)),
                                !.node_counter = @ + 1 ]
                ELSE p, LAMBDA p1 :
             IF parent_id > 0
             THEN [ WithEdge(p1, parent_id, p1.false_sink_id, << >>) EXCEPT
                      !.edge_counter = @ + 1, !.node_counter = @ + 1 ]
             ELSE p1)
      [] node.t = "Lit" -> [ p EXCEPT !.panic = "unreachable code" ]
      [] node.t = "And" ->
           IF node.id \in DOMAIN p.id_map
           THEN [ WithEdge(p, parent_id, p.id_map[node.id], implied_literals) EXCEPT
                    !.edge_counter = @ + 1 ]
           ELSE
           Bind(LocalImpliedLiterals(node.children), LAMBDA local_implied_literals :
           Bind(Len(NonLiteralChildren(node.children)), LAMBDA non_literal_children_counter :
             IF non_literal_children_counter = 0
             THEN Bind(WithTrueSink(p, TRUE), LAMBDA p1 :
                    IF parent_id = 0
                    THEN Bind(WithNewNode(p1, "a", node.id), LAMBDA p2 :
                           WithEdge(p2, p2.current_node_id, p2.true_sink_id,
                                    local_implied_literals \o implied_literals))
                    ELSE WithEdge(p1, parent_id, p1.true_sink_id,
                                  local_implied_literals \o implied_literals))
             ELSE IF non_literal_children_counter = 1
             THEN Bind(IF parent_id = 0 THEN WithNewNode(p, "a", node.id) ELSE p,
                       LAMBDA p1 :
                    PrintChildren(p1, NonLiteralChildren(node.children),
                                  IF parent_id = 0 THEN p1.current_node_id ELSE parent_id,
                                  implied_literals \o local_implied_literals))
             ELSE Bind(WithNewNode(p, "a", node.id), LAMBDA p1 :
                  Bind(p1.current_node_id, LAMBDA id :
                    PrintChildren(IF parent_id # 0
                                  THEN WithEdge(p1, parent_id, id, implied_literals)
                                  ELSE p1,
                                  NonLiteralChildren(node.children), id,
                                  local_implied_literals)))))
      [] node.t = "Or" ->
           IF node.id \in DOMAIN p.id_map
           THEN [ WithEdge(p, parent_id, p.id_map[node.id], implied_literals) EXCEPT
                    !.edge_counter = @ + 1 ]
           ELSE Bind(WithNewNode(p, "o", node.id), LAMBDA p1 :
                Bind(p1.current_node_id, LAMBDA id :
                  PrintOrChildren(IF parent_id # 0
                                  THEN WithEdge(p1, parent_id, id, implied_literals)
                                  ELSE p1,
                                  node.children, id,
                                  IF parent_id # 0 THEN << >> ELSE implied_literals)))

\* the loops of the AndNode cases over the children that are no
\* LiteralLeave: print_node for each with the same parent and literals
PrintChildren(p, child_list, parent_id, literals) ==
    IF child_list = << >> \/ p.panic # "" THEN p
    ELSE PrintChildren(print_node(p, Head(child_list), parent_id, literals),
                       Tail(child_list), parent_id, literals)

\* the loop of the OrNode case over the children: an edge to the true sink
\* for a LiteralLeave, print_node for every other child
PrintOrChildren(p, child_list, id, local_implied_literals) ==
    IF child_list = << >> \/ p.panic # "" THEN p
    ELSE Bind(Head(child_list), LAMBDA child_node :
           PrintOrChildren(
             IF child_node.t = "Lit"
             THEN Bind(WithTrueSink(p, TRUE), LAMBDA p1 :
                    WithEdge(p1, id, p1.true_sink_id,
                             << LiteralText(child_node.index, child_node.positive) >>
                                \o local_implied_literals))
             ELSE print_node(p, child_node, id, local_implied_literals),
             Tail(child_list), id, local_implied_literals))

\* DDNNFPrinter::print on a new printer for the DAG root_node
PrinterPrint(root_node) ==
    IF root_node.t = "False"
    THEN [ NewPrinter EXCEPT
             !.node_counter = 2,
             !.result_string = << NodeLine("o", 1), NodeLine("f", 2),
                                  EdgeLine(1, 2, << 1 >>) >> ]
    ELSE print_node(NewPrinter, root_node, 0, << >>)

\* run_not_rec in mode ddnnf after solve has returned: DDNNFPrinter::print
\* on the DAG of the result
Run_print ==
    /\ pc = "done"
    /\ printer' = PrinterPrint(solver_result.root_node)
    /\ pc' = IF printer'.panic # "" THEN "panic" ELSE "printed"
    /\ UNCHANGED << opb_file, pseudo_boolean_formula, learned_clauses,
                    learned_clauses_by_variables, assignment_stack, assignments,
                    decision_level, result_stack, ddnnf_stack,
                    number_unsat_constraints, number_unassigned_variables, cache,
                    variable_in_scope, constraint_indexes_in_scope,
                    next_variables, vsids_scores, unique_id, statistics, panic,
                    solver_result, the_constraint, initial_constraint, call_stack >>

(***************************************************************************)
(* Input files.  The parser (p2d_opb/src/parser.rs) numbers the variable   *)
(* names 0, 1, ... in the order of their first occurrence, gives every     *)
(* summand positive = true and counts the names in max_name_index.         *)
(***************************************************************************)
Summand(variable_index, factor) ==
    [ variable_index |-> variable_index, factor |-> factor, positive |-> TRUE ]

Equation(lhs, kind, rhs) == [ lhs |-> lhs, rhs |-> rhs, kind |-> kind ]

\* the variables of the summands of a list of equations
NamesOf(equations) ==
    UNION { { equations[i].lhs[j].variable_index : j \in 1..Len(equations[i].lhs) } :
              i \in 1..Len(equations) }

\* the file the parser builds for a list of equations under a header that
\* declares the names and the equations there are: max_name_index counts
\* the names parse_summand has met, number_variables and number_constraints
\* are the numbers of the header
OPBFile(equations) ==
    [ equations |-> equations,
      max_name_index |-> Cardinality(NamesOf(equations)),
      number_constraints |-> Len(equations),
      number_variables |-> Cardinality(NamesOf(equations)) ]

\* the variables a coefficient vector mentions (0: the variable is absent)
Support(c) == { v \in DOMAIN c : c[v] # 0 }

\* the left-hand side written for a coefficient vector
LhsOf(c) ==
    Bind(SortedSeq(Support(c)), LAMBDA keys :
      [ i \in 1..Len(keys) |-> Summand(keys[i], c[keys[i]]) ])

\* the parser numbers names by first occurrence: the names seen so far are
\* 0, 1, ... without a gap
IsPrefix(V) == \A v \in V : v = 0 \/ (v - 1) \in V

\* the first equation of a file: factors -1..MaxFactor over a prefix of the
\* variables, >= or !=, right-hand side 1..MaxRhs
FirstEquations ==
    { [ c |-> c, kind |-> kind, rhs |-> rhs ] :
        c \in { c \in [ 0..(MaxVars - 1) -> -1..MaxFactor ] :
                  Support(c) # { } /\ IsPrefix(Support(c)) },
        kind \in { "Ge", "NotEq" }, rhs \in 1..MaxRhs }

\* the second equation of a file: factors 0..1, >= or !=, right-hand side 1
SecondEquations ==
    { [ c |-> c, kind |-> kind, rhs |-> 1 ] :
        c \in { c \in [ 0..(MaxVars - 1) -> 0..1 ] : Support(c) # { } },
        kind \in { "Ge", "NotEq" } }

\* the file of a sequence of equation choices
MkFile(choices) ==
    OPBFile([ i \in 1..Len(choices) |->
                Equation(LhsOf(choices[i].c), choices[i].kind, choices[i].rhs) ])

\* the equation +1 x0 >= 1, which simplify turns into an assignment of
\* decision level 0
UnitEquation ==
    [ c |-> [ v \in 0..(MaxVars - 1) |-> IF v = 0 THEN 1 ELSE 0 ],
      kind |-> "Ge", rhs |-> 1 ]

\* the equation +1 x0 +1 x1 >= 1, which x0 = true satisfies, leaving x1 in no
\* active constraint
PairEquation ==
    [ c |-> [ v \in 0..(MaxVars - 1) |-> IF v \in { 0, 1 } THEN 1 ELSE 0 ],
      kind |-> "Ge", rhs |-> 1 ]

\* the equations after a pair equation: +1 x0 +1 x(MaxVars - 1), >= or !=,
\* right-hand side 1..2
SplitEquations ==
    { [ c |-> [ v \in 0..(MaxVars - 1) |-> IF v \in { 0, MaxVars - 1 } THEN 1 ELSE 0 ],
        kind |-> kind, rhs |-> rhs ] :
        kind \in { "Ge", "NotEq" }, rhs \in 1..2 }

\* the equation +1 x0 +1 x1 >= 0, satisfied from the start: x0 and x1 are
\* in no active constraint
FreePairEquation ==
    [ c |-> [ v \in 0..(MaxVars - 1) |-> IF v \in { 0, 1 } THEN 1 ELSE 0 ],
      kind |-> "Ge", rhs |-> 0 ]

\* the equations after a free pair equation: +1 x(MaxVars - 1) != 1..2, which
\* stay active until x(MaxVars - 1) is assigned
TailEquations ==
    { [ c |-> [ v \in 0..(MaxVars - 1) |-> IF v = MaxVars - 1 THEN 1 ELSE 0 ],
        kind |-> "NotEq", rhs |-> rhs ] : rhs \in 1..2 }

\* the equations +1 x0 +1 x1 != 1..2, linked to a pair equation through both
\* of its variables
LinkedEquations ==
    { [ c |-> [ v \in 0..(MaxVars - 1) |-> IF v \in { 0, 1 } THEN 1 ELSE 0 ],
        kind |-> "NotEq", rhs |-> rhs ] : rhs \in 1..2 }

\* the equations +1 x1 != 1..2, on a variable no tail equation mentions
MiddleEquations ==
    { [ c |-> [ v \in 0..(MaxVars - 1) |-> IF v = 1 THEN 1 ELSE 0 ],
        kind |-> "NotEq", rhs |-> rhs ] : rhs \in 1..2 }

\* the equations after a unit equation: factors -1 and 1 on every other
\* variable, >= or !=, right-hand side 0..1
LaterEquations ==
    { [ c |-> c, kind |-> kind, rhs |-> rhs ] :
        c \in { c \in [ 0..(MaxVars - 1) -> -1..1 ] :
                  Support(c) = 1..(MaxVars - 1) },
        kind \in { "Ge", "NotEq" }, rhs \in 0..1 }

\* the files of one equation on fewer than MaxVars names whose header
\* declares one variable more than the equation mentions
DeclaredFiles ==
    { [ MkFile(<< a >>) EXCEPT !.number_variables = @ + 1 ] :
        a \in { a \in FirstEquations : Cardinality(Support(a.c)) < MaxVars } }

\* the parsed files the solver is run on: one or two equations, or a unit
\* equation followed by two equations on the other variables
Files ==
    DeclaredFiles \cup
    { MkFile(<< a >>) : a \in FirstEquations }
    \cup { MkFile(ch) : ch \in { ch \in FirstEquations \X SecondEquations :
                                   IsPrefix(Support(ch[1].c) \cup Support(ch[2].c)) } }
    \cup { MkFile(<< UnitEquation, b, d >>) : b, d \in LaterEquations }
    \cup { MkFile(<< PairEquation, b, d >>) : b, d \in SplitEquations }
    \cup { MkFile(<< FreePairEquation, b, d >>) : b, d \in TailEquations }
    \cup { MkFile(<< PairEquation, b, d >>) : b \in TailEquations, d \in LinkedEquations }
    \cup { MkFile(<< UnitEquation, b, d >>) : b \in MiddleEquations, d \in TailEquations }

(***************************************************************************)
(* Spec: Solver::new on the formula of a file, then Solver::solve.         *)
(***************************************************************************)
Init ==
    /\ opb_file \in Files
    /\ \E s0 \in { NewSolver(NewPseudoBooleanFormula(opb_file)) } : InstallInit(s0)
    /\ pc = "simplify"
    /\ solver_result = NoResult
    /\ the_constraint = NoConstraint
    /\ initial_constraint = NoConstraint
    /\ call_stack = << >>
    /\ printer = NewPrinter

Next ==
    \/ Count_simplify
    \/ Count_satisfied
    \/ Count_cache_hit
    \/ Count_branch_components
    \/ Count_decide
    \/ Backtrack_level_zero
    \/ Backtrack_propagated
    \/ Backtrack_first_decision
    \/ Backtrack_second_decision
    \/ Backtrack_component_branch
    \/ Backtrack_empty
    \/ Count_return

Spec == Init /\ [][Next]_vars

\* the files of Files whose first equation has factors -1..1 and right-hand
\* side 1
LiveFiles ==
    { file \in Files :
        /\ file.equations[1].rhs = 1
        /\ \A i \in 1..Len(file.equations[1].lhs) :
              file.equations[1].lhs[i].factor \in -1..1 }

InitLive ==
    /\ opb_file \in LiveFiles
    /\ \E s0 \in { NewSolver(NewPseudoBooleanFormula(opb_file)) } : InstallInit(s0)
    /\ pc = "simplify"
    /\ solver_result = NoResult
    /\ the_constraint = NoConstraint
    /\ initial_constraint = NoConstraint
    /\ call_stack = << >>
    /\ printer = NewPrinter

\* SpecLive: Solver::solve on the files of LiveFiles, the sequential program
\* always taking its next step
SpecLive == InitLive /\ [][Next]_vars /\ WF_vars(Next)

\* SpecAnyCut: Solver::solve with the partitioner replaced by an arbitrary
\* choice of cut variables
NextAnyCut ==
    \/ Count_simplify
    \/ Count_satisfied
    \/ Count_cache_hit
    \/ Count_branch_components
    \/ Count_decide_any_cut
    \/ Backtrack_level_zero
    \/ Backtrack_propagated
    \/ Backtrack_first_decision
    \/ Backtrack_second_decision
    \/ Backtrack_component_branch
    \/ Backtrack_empty
    \/ Count_return

SpecAnyCut == Init /\ [][NextAnyCut]_vars

\* SpecPrint: run_not_rec in mode ddnnf: Solver::solve, then
\* DDNNFPrinter::print on its result
NextPrint ==
    \/ Count_simplify
    \/ Count_satisfied
    \/ Count_cache_hit
    \/ Count_branch_components
    \/ Count_decide
    \/ Backtrack_level_zero
    \/ Backtrack_propagated
    \/ Backtrack_first_decision
    \/ Backtrack_second_decision
    \/ Backtrack_component_branch
    \/ Backtrack_empty
    \/ Count_return
    \/ Run_print

SpecPrint == Init /\ [][NextPrint]_vars

(***************************************************************************)
(* SpecNorm: PseudoBooleanFormula::new on the parsed file of one equation  *)
(* with any of the six relations, factors -MaxFactor..MaxFactor (0 and     *)
(* repeated variables included) and right-hand side -MaxRhs..MaxRhs.  pc   *)
(* is "new" before the call and "constructed" after it.                    *)
(***************************************************************************)
EquationKinds == { "Eq", "Le", "Ge", "L", "G", "NotEq" }

\* the left-hand sides of up to MaxSummands summands over two names, the
\* names numbered by first occurrence
NormLhs ==
    { lhs \in UNION { [ 1..n -> { Summand(v, f) : v \in 0..1,
                                                   f \in (0 - MaxFactor)..MaxFactor } ] :
                        n \in 1..MaxSummands } :
        \A i \in 1..Len(lhs) :
           \/ lhs[i].variable_index = 0
           \/ \E j \in 1..(i - 1) : lhs[j].variable_index = 0 }

NormFiles ==
    { OPBFile(<< Equation(lhs, kind, rhs) >>) :
        lhs \in NormLhs, kind \in EquationKinds, rhs \in (0 - MaxRhs)..MaxRhs }

InitNorm ==
    /\ opb_file \in NormFiles
    /\ \E s0 \in { NewSolver(NewPseudoBooleanFormula(OPBFile(<< >>))) } : InstallInit(s0)
    /\ pc = "new"
    /\ solver_result = NoResult
    /\ the_constraint = NoConstraint
    /\ initial_constraint = NoConstraint
    /\ call_stack = << >>
    /\ printer = NewPrinter

\* PseudoBooleanFormula::new(&opb_file)
Formula_new ==
    /\ pc = "new"
    /\ pseudo_boolean_formula' = NewPseudoBooleanFormula(opb_file)
    /\ pc' = "constructed"
    /\ UNCHANGED << opb_file, learned_clauses, learned_clauses_by_variables,
                    assignment_stack, assignments, decision_level, result_stack,
                    ddnnf_stack, number_unsat_constraints,
                    number_unassigned_variables, cache, variable_in_scope,
                    constraint_indexes_in_scope, next_variables, vsids_scores,
                    unique_id, statistics, panic, solver_result, the_constraint,
                    initial_constraint, call_stack, printer >>

NextNorm == Formula_new

SpecNorm == InitNorm /\ [][NextNorm]_vars

(***************************************************************************)
(* SpecConstraint: Constraint::propagate and Constraint::undo called on    *)
(* one constraint the way Solver::propagate and undo_last_assignment call  *)
(* them: propagate for distinct variables of the constraint, then undo for *)
(* the same variables and signs in reverse order.  the_constraint is the   *)
(* constraint, call_stack the calls of propagate not yet undone, each with *)
(* the constraint as it was before the call, initial_constraint the        *)
(* constraint as it was before the calls undone so far; pc is              *)
(* "propagating" until the first undo and "undoing" from then on.          *)
(***************************************************************************)
InitConstraint ==
    /\ opb_file \in { MkFile(<< a >>) : a \in FirstEquations }
    /\ \E s0 \in { NewSolver(NewPseudoBooleanFormula(opb_file)) } :
          /\ InstallInit(s0)
          /\ the_constraint = s0.pseudo_boolean_formula.constraints[0]
          /\ initial_constraint = s0.pseudo_boolean_formula.constraints[0]
    /\ pc = "propagating"
    /\ solver_result = NoResult
    /\ call_stack = << >>
    /\ printer = NewPrinter

\* the variables of the calls of propagate not yet undone
CalledVariables == { call_stack[i].index : i \in 1..Len(call_stack) }

\* constraint.propagate(Literal{index, factor: 0, positive}, kind, level):
\* the first call as a decision, the later ones as propagations
Constraint_propagate ==
    /\ pc = "propagating"
    /\ \E index \in DOMAIN the_constraint.literals \ CalledVariables :
       \E positive \in BOOLEAN :
       \E r \in { ConstraintPropagate(
                    the_constraint,
                    [ index |-> index, positive |-> positive, factor |-> 0 ],
                    IF call_stack = << >> THEN FirstDecision
                    ELSE Propagated(the_constraint.index),
                    Len(call_stack) + 1) } :
          /\ the_constraint' = r.c
          /\ call_stack' = Append(call_stack, [ index |-> index, positive |-> positive,
                                                before |-> the_constraint ])
    /\ UNCHANGED << opb_file, pseudo_boolean_formula, learned_clauses,
                    learned_clauses_by_variables, assignment_stack, assignments,
                    decision_level, result_stack, ddnnf_stack,
                    number_unsat_constraints, number_unassigned_variables, cache,
                    variable_in_scope, constraint_indexes_in_scope, next_variables,
                    vsids_scores, unique_id, statistics, panic, pc, solver_result,
                    initial_constraint, printer >>

\* constraint.undo(index, positive) for the last call not yet undone
Constraint_undo ==
    /\ pc \in { "propagating", "undoing" }
    /\ call_stack # << >>
    /\ \E call \in { Top(call_stack) } :
          /\ the_constraint' = ConstraintUndo(the_constraint, call.index,
                                              call.positive).c
          /\ initial_constraint' = call.before
    /\ call_stack' = Pop(call_stack)
    /\ pc' = "undoing"
    /\ UNCHANGED << opb_file, pseudo_boolean_formula, learned_clauses,
                    learned_clauses_by_variables, assignment_stack, assignments,
                    decision_level, result_stack, ddnnf_stack,
                    number_unsat_constraints, number_unassigned_variables, cache,
                    variable_in_scope, constraint_indexes_in_scope, next_variables,
                    vsids_scores, unique_id, statistics, panic, solver_result,
                    printer >>

NextConstraint ==
    \/ Constraint_propagate
    \/ Constraint_undo

SpecConstraint == InitConstraint /\ [][NextConstraint]_vars

(***************************************************************************)
(* Properties.                                                             *)
(***************************************************************************)
\* the formula PseudoBooleanFormula::new built for the file, before the
\* solver has touched it
BuiltFormula == NewPseudoBooleanFormula(opb_file)

\* the nodes on ddnnf_stack, in the cache and under the returned root_node
AllNodes ==
    UNION { NodesOf(ddnnf_stack[i]) : i \in 1..Len(ddnnf_stack) }
    \cup UNION { NodesOf(cache[k].ddnnf_ref) : k \in DOMAIN cache }
    \cup NodesOf(solver_result.root_node)

C3_Decomposable ==
    \A n \in AllNodes :
       n.t = "And" =>
          \A i, j \in 1..Len(n.children) :
             i # j => VariablesOf(n.children[i]) \cap VariablesOf(n.children[j]) = { }

\* a cached node has been reused and the returned DAG holds an AndNode built
\* from a ComponentBranch: two children that are not literals
C3_Witness ==
    /\ pc = "done"
    /\ statistics.cache_hits > 0
    /\ \E n \in NodesOf(solver_result.root_node) :
          /\ n.t = "And"
          /\ \E i, j \in 1..Len(n.children) :
                /\ i # j
                /\ n.children[i].t \in { "And", "Or" }
                /\ VariablesOf(n.children[j]) # { }

\* d is LiteralLeave(v, b) or an AndNode with that literal as a child
Bears(d, v, b) ==
    \/ d.t = "Lit" /\ d.index = v /\ d.positive = b
    \/ /\ d.t = "And"
       /\ \E i \in 1..Len(d.children) :
             /\ d.children[i].t = "Lit"
             /\ d.children[i].index = v
             /\ d.children[i].positive = b

\* C4: every OrNode on ddnnf_stack, in the cache or under the returned
\* root_node has exactly two children, a variable v is borne positive by one
\* of them and negative by the other (as the child itself or as a direct
\* child of an AndNode child), and no total assignment satisfies both
C4_Deterministic ==
    \A n \in AllNodes :
       n.t = "Or" =>
          /\ Len(n.children) = 2
          /\ \E v \in 0..(opb_file.max_name_index - 1) : \E b \in BOOLEAN :
                Bears(n.children[1], v, b) /\ Bears(n.children[2], v, ~b)
          /\ ModelsOfNode(n.children[1], opb_file.max_name_index)
                \cap ModelsOfNode(n.children[2], opb_file.max_name_index) = { }

\* an OrNode whose two children are AndNodes is on the stack, in the cache
\* or returned
C4_Witness ==
    \E n \in AllNodes :
       n.t = "Or" /\ n.children[1].t = "And" /\ n.children[2].t = "And"

\* C5: at the head of every iteration of the loop of count, at the head of
\* every iteration of the loop of backtrack and when backtrack or count
\* has returned, result_stack and ddnnf_stack have the same depth
C5_StackDepths ==
    pc # "panic" => Len(result_stack) = Len(ddnnf_stack)

\* backtrack has returned true to the loop of count with two entries on
\* each stack
C5_Witness ==
    /\ pc = "loop"
    /\ Len(result_stack) >= 2
    /\ Len(ddnnf_stack) >= 2

\* C6: at the head of every iteration of the loop of count and of the loop
\* of backtrack, number_unassigned_variables is the size of
\* variable_in_scope and no variable in scope has an assignment
C6_ScopeUnassigned ==
    pc \in { "loop", "backtrack" } =>
       /\ number_unassigned_variables = Cardinality(variable_in_scope)
       /\ \A v \in variable_in_scope : ~assignments[v].some

\* the loop of count runs in the second component of a ComponentBranch
\* after a decision
C6_Witness ==
    /\ pc = "loop"
    /\ decision_level >= 1
    /\ \E i \in 1..Len(assignment_stack) :
          /\ assignment_stack[i].e = "ComponentBranch"
          /\ assignment_stack[i].current_component = 1

\* C7 as stated: after the undos of the last calls of propagate, in reverse
\* order, every field of the constraint is as it was before those calls
C7_RestoresEveryField ==
    pc = "undoing" => the_constraint = initial_constraint

\* C7: after the undos of the last calls of propagate, in reverse order,
\* literals, unassigned_literals, degree, sum_true, sum_unassigned,
\* assignments, factor_sum, constraint_type and index are as they were
\* before those calls, and max_literal has the factor it had
C7_RestoresUpToMaxLiteral ==
    pc = "undoing" =>
       /\ [ the_constraint EXCEPT !.max_literal = @.factor ]
             = [ initial_constraint EXCEPT !.max_literal = @.factor ]

\* every call has been undone and max_literal is another literal than
\* before the calls
C7_Witness ==
    /\ pc = "undoing"
    /\ call_stack = << >>
    /\ the_constraint.max_literal # initial_constraint.max_literal
    /\ the_constraint.max_literal.factor = initial_constraint.max_literal.factor

\* the normal and the learned constraints of the solver
AllConstraints ==
    { pseudo_boolean_formula.constraints[i] :
        i \in DOMAIN pseudo_boolean_formula.constraints }
    \cup { learned_clauses[i] : i \in DOMAIN learned_clauses }

\* the sum of the factors of the literals of c on the variables V
FactorsOf(c, V) ==
    SumSeq([ i \in 1..Len(SortedSeq(V)) |-> c.literals[SortedSeq(V)[i]].factor ])

\* unassigned_literals and assignments of c have disjoint key sets whose
\* sizes add up to the number of literals
PartitionsLiterals(c) ==
    /\ DOMAIN c.unassigned_literals \cap DOMAIN c.assignments = { }
    /\ Cardinality(DOMAIN c.unassigned_literals) + Cardinality(DOMAIN c.assignments)
          = Cardinality(DOMAIN c.literals)

\* C8 as stated: for every normal and learned constraint, sum_true +
\* sum_unassigned is the sum of the factors of its literals whose variable
\* the solver has not assigned contrary to their polarity and is at most
\* factor_sum, and unassigned_literals and assignments partition literals
C8_SumsFollowSolverAssignments ==
    \A c \in AllConstraints :
       /\ c.sum_true + c.sum_unassigned
             = FactorsOf(c, { v \in DOMAIN c.literals :
                                ~(/\ assignments[v].some
                                  /\ assignments[v].sign # c.literals[v].positive) })
       /\ c.sum_true + c.sum_unassigned <= c.factor_sum
       /\ PartitionsLiterals(c)

\* C8: for every normal and learned constraint, sum_true + sum_unassigned
\* is the sum of the factors of its literals that its own assignments map
\* does not record as assigned contrary to their polarity and is at most
\* factor_sum, and unassigned_literals and assignments partition literals
C8_SumsFollowRecordedAssignments ==
    \A c \in AllConstraints :
       /\ c.sum_true + c.sum_unassigned
             = FactorsOf(c, { v \in DOMAIN c.literals :
                                ~(/\ v \in DOMAIN c.assignments
                                  /\ c.assignments[v].sign # c.literals[v].positive) })
       /\ c.sum_true + c.sum_unassigned <= c.factor_sum
       /\ PartitionsLiterals(c)

\* there is a learned constraint, and a normal constraint has recorded an
\* assignment contrary to a literal and has not recorded the assignment of
\* another variable the solver has assigned
C8_Witness ==
    /\ learned_clauses # EmptyMap
    /\ \E i \in DOMAIN pseudo_boolean_formula.constraints :
          \E v \in DOMAIN pseudo_boolean_formula.constraints[i].assignments :
          \E w \in DOMAIN pseudo_boolean_formula.constraints[i].unassigned_literals :
             /\ pseudo_boolean_formula.constraints[i].assignments[v].sign
                   # pseudo_boolean_formula.constraints[i].literals[v].positive
             /\ assignments[w].some

RECURSIVE LhsValue(_, _)
\* the value of the left-hand side of an equation of the file under a total
\* assignment
LhsValue(lhs, a) ==
    IF lhs = << >> THEN 0
    ELSE (IF a[Head(lhs).variable_index] = Head(lhs).positive
          THEN Head(lhs).factor ELSE 0)
         + LhsValue(Tail(lhs), a)

\* whether a total assignment satisfies an equation of the file
EquationHolds(equation, a) ==
    CASE equation.kind = "Eq" -> LhsValue(equation.lhs, a) = equation.rhs
      [] equation.kind = "Le" -> LhsValue(equation.lhs, a) <= equation.rhs
      [] equation.kind = "Ge" -> LhsValue(equation.lhs, a) >= equation.rhs
      [] equation.kind = "L" -> LhsValue(equation.lhs, a) < equation.rhs
      [] equation.kind = "G" -> LhsValue(equation.lhs, a) > equation.rhs
      [] equation.kind = "NotEq" -> LhsValue(equation.lhs, a) # equation.rhs

\* C9: the constraints PseudoBooleanFormula::new stores for an equation are
\* satisfied by exactly the total assignments that satisfy the equation
C9_NormalizationPreservesMeaning ==
    pc = "constructed" =>
       \A a \in TotalAssignments(opb_file.max_name_index) :
          EquationHolds(opb_file.equations[1], a)
             <=> \A i \in DOMAIN pseudo_boolean_formula.constraints :
                    ConstraintHolds(pseudo_boolean_formula.constraints[i], a)

RECURSIVE Coefficient(_, _)
\* the sum of the factors of the summands of lhs on variable v
Coefficient(lhs, v) ==
    IF lhs = << >> THEN 0
    ELSE (IF Head(lhs).variable_index = v THEN Head(lhs).factor ELSE 0)
         + Coefficient(Tail(lhs), v)

Abs(x) == IF x < 0 THEN 0 - x ELSE x

\* C10: after PseudoBooleanFormula::new every constraint is GreaterEqual or
\* NotEqual, has one literal per variable of the equation with the absolute
\* value of the sum of the coefficients of the variable as its non-negative
\* factor, a non-negative degree, sum_true = 0 and sum_unassigned =
\* factor_sum = the sum of the factors, and constraints_by_variable[v] lists
\* exactly the constraints that contain v, each once
C10_PostNewStructure ==
    pc = "constructed" =>
       /\ \A i \in DOMAIN pseudo_boolean_formula.constraints :
             \E c \in { pseudo_boolean_formula.constraints[i] } :
                /\ c.constraint_type \in { "GreaterEqual", "NotEqual" }
                /\ DOMAIN c.literals = NamesOf(opb_file.equations)
                /\ \A v \in DOMAIN c.literals :
                      /\ c.literals[v].factor >= 0
                      /\ c.literals[v].factor
                            = Abs(Coefficient(opb_file.equations[1].lhs, v))
                /\ c.degree >= 0
                /\ c.sum_true = 0
                /\ c.sum_unassigned = c.factor_sum
                /\ c.factor_sum = FactorsOf(c, DOMAIN c.literals)
       /\ \A v \in 0..(opb_file.max_name_index - 1) :
             \E list \in { pseudo_boolean_formula.constraints_by_variable[v] } :
                /\ Len(list) = Cardinality(Range(list))
                /\ Range(list)
                      = { i \in DOMAIN pseudo_boolean_formula.constraints :
                            v \in DOMAIN pseudo_boolean_formula.constraints[i].literals }

\* the formula of an = equation with a repeated variable and a negative
\* coefficient has been built: two constraints
C10_Witness ==
    /\ pc = "constructed"
    /\ opb_file.equations[1].kind = "Eq"
    /\ Len(opb_file.equations[1].lhs) = 3
    /\ opb_file.max_name_index = 2
    /\ \E i \in 1..3 : opb_file.equations[1].lhs[i].factor < 0
    /\ Cardinality(DOMAIN pseudo_boolean_formula.constraints) = 2

\* the equations PseudoBooleanFormula::new turns into constraints
NormalizedEquations == NormalizeEquations(opb_file.equations)

\* C11: the normalization pipeline run on its own output yields equal
\* equations, and the formula built from them equals the formula built from
\* the file
C11_NormalizationIdempotent ==
    pc = "constructed" =>
       /\ NormalizeEquations(NormalizedEquations) = NormalizedEquations
       /\ NewPseudoBooleanFormula([ opb_file EXCEPT !.equations = NormalizedEquations ])
             = pseudo_boolean_formula

\* the formula of a < equation with a repeated variable and a negative
\* coefficient has been built: every step of the pipeline but the first
\* changed the equation
C11_Witness ==
    /\ pc = "constructed"
    /\ opb_file.equations[1].kind = "L"
    /\ \E i, j \in 1..Len(opb_file.equations[1].lhs) :
          /\ i < j
          /\ opb_file.equations[1].lhs[i].variable_index
                = opb_file.equations[1].lhs[j].variable_index
    /\ \E i \in 1..Len(NormalizedEquations[1].lhs) :
          ~NormalizedEquations[1].lhs[i].positive
    /\ NormalizedEquations # opb_file.equations

\* C12 as stated: count returns only from an empty assignment_stack, with
\* exactly one count on result_stack and one node on ddnnf_stack, which are
\* the values returned
C12_ReturnsOnEmptyTrail ==
    [][pc' = "done" =>
          /\ assignment_stack = << >>
          /\ Len(result_stack) = 1
          /\ Len(ddnnf_stack) = 1
          /\ solver_result'.model_count = result_stack[1]
          /\ solver_result'.root_node = ddnnf_stack[1]]_vars

\* C12: count returns either (0, FalseLeave) straight after a failed simplify,
\* with both stacks empty, or after backtrack has returned false, which it
\* does on an empty assignment_stack or on a frame of decision level 0 under
\* FalseLeave; in the latter two cases result_stack holds exactly one count
\* and ddnnf_stack exactly one node, which are the values returned
C12_ReturnsAfterBacktrackFalse ==
    [][pc' = "done" =>
          \/ /\ pc = "simplify"
             /\ result_stack = << >> /\ ddnnf_stack = << >>
             /\ result_stack' = << >> /\ ddnnf_stack' = << >>
             /\ solver_result'.model_count = 0
             /\ solver_result'.root_node = FalseLeave
          \/ /\ pc = "return"
             /\ Len(result_stack) = 1
             /\ Len(ddnnf_stack) = 1
             /\ solver_result'.model_count = result_stack[1]
             /\ solver_result'.root_node = ddnnf_stack[1]
             /\ \/ assignment_stack = << >>
                \/ /\ Top(assignment_stack).e = "Assignment"
                   /\ Top(assignment_stack).decision_level = 0
                   /\ ddnnf_stack[1] = FalseLeave]_vars

\* count has returned what backtrack left on the stacks when it stopped at a
\* frame of decision level 0
C12_Witness ==
    /\ pc = "done"
    /\ solver_result.some
    /\ assignment_stack # << >>
    /\ number_unsat_constraints > 0
    /\ decision_level = 0
    /\ cache # EmptyMap

\* C13: number_unsat_constraints is the size of constraint_indexes_in_scope
\* and never below 0; at every main-loop step the constraints in scope are
\* unsatisfied and every unsatisfied normal constraint with an unassigned
\* literal in variable_in_scope is in scope; propagate reports
\* AlreadySatisfied, and changes nothing, for a satisfied constraint and a
\* variable it has not recorded
C13_UnsatCountMatchesScope ==
    /\ number_unsat_constraints >= 0
    /\ number_unsat_constraints = Cardinality(constraint_indexes_in_scope)
    /\ pc = "loop" =>
          /\ \A i \in constraint_indexes_in_scope :
                is_unsatisfied(pseudo_boolean_formula.constraints[i])
          /\ \A i \in DOMAIN pseudo_boolean_formula.constraints :
                ( /\ is_unsatisfied(pseudo_boolean_formula.constraints[i])
                  /\ \E v \in DOMAIN pseudo_boolean_formula.constraints[i].unassigned_literals :
                        v \in variable_in_scope )
                => i \in constraint_indexes_in_scope
    /\ \A i \in DOMAIN pseudo_boolean_formula.constraints :
          \E c \in { pseudo_boolean_formula.constraints[i] } :
             IsSatisfiedNow(c) =>
                \A v \in DOMAIN c.literals \ DOMAIN c.assignments : \A sign \in BOOLEAN :
                   ConstraintPropagate(c, [ index |-> v, factor |-> 0, positive |-> sign ],
                                       FirstDecision, decision_level)
                      = [ c |-> c, result |-> [ t |-> "AlreadySatisfied", list |-> << >> ] ]

\* a main-loop step at which some constraint is satisfied, out of scope, and
\* has skipped the assignment of one of its variables as AlreadySatisfied,
\* while another constraint is still counted
C13_Witness ==
    /\ pc = "loop"
    /\ number_unsat_constraints > 0
    /\ \E i \in DOMAIN pseudo_boolean_formula.constraints :
          /\ i \notin constraint_indexes_in_scope
          /\ ~is_unsatisfied(pseudo_boolean_formula.constraints[i])
          /\ \E v \in DOMAIN pseudo_boolean_formula.constraints[i].unassigned_literals :
                assignments[v].some

\* C14: a count is 0 exactly when its node is FalseLeave, for the pairs at
\* the same depth of result_stack and ddnnf_stack, for the cache entries and
\* for the returned result; solve does not panic, and for a formula without
\* a satisfying assignment it returns (0, FalseLeave)
C14_ZeroIffFalseLeave ==
    /\ \A i \in 1..Min({ Len(result_stack), Len(ddnnf_stack) }) :
          (result_stack[i] = 0) <=> (ddnnf_stack[i] = FalseLeave)
    /\ \A k \in DOMAIN cache :
          (cache[k].mc = 0) <=> (cache[k].ddnnf_ref = FalseLeave)
    /\ solver_result.some =>
          ((solver_result.model_count = 0) <=> (solver_result.root_node = FalseLeave))
    /\ ModelsOfFormula(BuiltFormula) = { } =>
          /\ pc # "panic"
          /\ panic = ""
          /\ pc = "done" => /\ solver_result.model_count = 0
                            /\ solver_result.root_node = FalseLeave

\* solve has returned (0, FalseLeave) for an unsatisfiable file that passed
\* simplify: the search cached an unsatisfiable sub-problem
C14_Witness ==
    /\ pc = "done"
    /\ solver_result.model_count = 0
    /\ solver_result.root_node = FalseLeave
    /\ \E k \in DOMAIN cache : cache[k].mc = 0

\* the total assignment that follows the solver's assignments, b on the
\* variables b is defined on, and false elsewhere
ExtendAssignment(b) ==
    [ v \in 0..(pseudo_boolean_formula.number_variables - 1) |->
        IF assignments[v].some THEN assignments[v].sign
        ELSE IF v \in DOMAIN b THEN b[v] ELSE FALSE ]

\* the assignments of variable_in_scope that satisfy the residual formula of
\* the current state: the constraints of constraint_indexes_in_scope under
\* the solver's assignments
ResidualModels ==
    { b \in [ variable_in_scope -> BOOLEAN ] :
        \A i \in constraint_indexes_in_scope :
           ConstraintHolds(pseudo_boolean_formula.constraints[i], ExtendAssignment(b)) }

RECURSIVE CountsFrom(_, _, _)
\* the counts Solver::count can return from the solver s at position where
\* ("loop", "backtrack" or "return"), over the choices of the partitioner
\* (no_cut: with the partitioner cutting no variable instead); -1 stands
\* for a panic
CountsFrom(s, where, no_cut) ==
    IF s.panic # "" THEN { 0 - 1 }
    ELSE IF where = "loop"
    THEN UNION { Bind(MainStep(s, nv), LAMBDA r : CountsFrom(r.s, r.next, no_cut)) :
                   nv \in IF no_cut THEN { << >> } ELSE PartitionerChoices(s) }
    ELSE IF where = "backtrack"
    THEN Bind(BacktrackStep(s), LAMBDA r :
           CountsFrom(r.s, CASE r.ret = "loop" -> "backtrack"
                             [] r.ret = "true" -> "loop"
                             [] OTHER -> "return", no_cut))
    ELSE IF s.result_stack = << >> THEN { 0 - 1 }
    ELSE { Top(s.result_stack) }

\* the counts Solver::solve can return for a file in a build without the
\* feature clause_learning
CountsWithoutLearning(file) ==
    Bind(SolverSimplify([ NewSolver(NewPseudoBooleanFormula(file))
                            EXCEPT !.clause_learning = FALSE ]), LAMBDA r :
      IF r.s.panic # "" THEN { 0 - 1 }
      ELSE IF ~r.ok THEN { 0 }
      ELSE CountsFrom(r.s, "loop", FALSE))

CountsWithoutCut(file) ==
    Bind(SolverSimplify(NewSolver(NewPseudoBooleanFormula(file))), LAMBDA r :
      IF r.s.panic # "" THEN { 0 - 1 }
      ELSE IF ~r.ok THEN { 0 }
      ELSE CountsFrom(r.s, "loop", TRUE))

MainLoopProgress ==
    pc = "loop" =>
       \/ pc' = "backtrack"
       \/ /\ pc' = "loop"
          /\ Len(assignment_stack') > Len(assignment_stack)
          /\ SubSeq(assignment_stack', 1, Len(assignment_stack)) = assignment_stack
          /\ \A i \in (Len(assignment_stack) + 1)..Len(assignment_stack') :
                assignment_stack'[i].e = "ComponentBranch" =>
                   \A k \in 1..Len(assignment_stack'[i].components) :
                      /\ assignment_stack'[i].components[k].variables \subseteq variable_in_scope
                      /\ assignment_stack'[i].components[k].variables # variable_in_scope

\* an iteration of the loop of backtrack pops the top frame, replaces a
\* FirstDecision by the SecondDecision of the same variable, advances a
\* ComponentBranch to its next component, or makes backtrack return false
\* on an empty trail or on a frame of level 0 under a FalseLeave
BacktrackProgress ==
    pc = "backtrack" =>
       \/ /\ assignment_stack # << >>
          /\ assignment_stack' = Pop(assignment_stack)
       \/ /\ assignment_stack # << >>
          /\ Top(assignment_stack).e = "Assignment"
          /\ Top(assignment_stack).assignment_kind = FirstDecision
          /\ Len(assignment_stack') >= Len(assignment_stack)
          /\ SubSeq(assignment_stack', 1, Len(assignment_stack) - 1) = Pop(assignment_stack)
          /\ assignment_stack'[Len(assignment_stack)] =
                [ Top(assignment_stack) EXCEPT !.assignment_kind = SecondDecision,
                                               !.variable_sign = ~@ ]
       \/ /\ assignment_stack # << >>
          /\ Top(assignment_stack).e = "ComponentBranch"
          /\ Top(assignment_stack).current_component + 1
                < Len(Top(assignment_stack).components)
          /\ assignment_stack' =
                Append(Pop(assignment_stack),
                       [ Top(assignment_stack) EXCEPT !.current_component = @ + 1 ])
          /\ pc' = "loop"
       \/ /\ pc' = "return"
          /\ assignment_stack' = assignment_stack
          /\ \/ assignment_stack = << >>
             \/ /\ Top(assignment_stack).e = "Assignment"
                /\ Top(assignment_stack).decision_level = 0
                /\ Top(ddnnf_stack).t = "False"

\* C18: under SpecLive every iteration of the main loop and of backtrack
\* makes the progress described above, and Solver::count returns in the end
C18_CountTerminates ==
    /\ [][MainLoopProgress /\ BacktrackProgress]_vars
    /\ <>(pc = "done")

\* Solver::count has returned more than one model after a search that
\* backtracked over both branches of a decision and cached the result
C18_Witness ==
    /\ pc = "done"
    /\ solver_result.some
    /\ statistics.cache_entries > 0
    /\ solver_result.model_count > 1

\* the sums and the unassigned literals of constraint c once the assignment
\* of variable index to positive is taken into account
SumsAfter(c, index, positive) ==
    [ sum_true |-> IF c.literals[index].positive = positive
                   THEN c.sum_true + c.literals[index].factor ELSE c.sum_true,
      sum_unassigned |-> c.sum_unassigned - c.literals[index].factor,
      unassigned |-> { c.literals[v] : v \in DOMAIN c.unassigned_literals \ { index } } ]

\* whether result is the verdict for a constraint of the given type and
\* degree on the sums u
VerdictFor(result, constraint_type, degree, u) ==
    IF constraint_type = "NotEqual"
    THEN result.t = IF u.sum_unassigned = 0 /\ u.sum_true # degree THEN "Satisfied"
                    ELSE IF u.sum_unassigned = 0 /\ u.sum_true = degree THEN "Unsatisfied"
                    ELSE "NothingToPropagated"
    ELSE IF u.sum_true >= degree THEN result.t = "Satisfied"
    ELSE IF u.sum_true + u.sum_unassigned < degree THEN result.t = "Unsatisfied"
    ELSE IF u.sum_true + u.sum_unassigned = degree
    THEN /\ result.t = "ImpliedLiteralList"
         /\ Range(result.list) = u.unassigned
         /\ Len(result.list) = Cardinality(u.unassigned)
    ELSE IF \E l \in u.unassigned : u.sum_true + u.sum_unassigned < degree + l.factor
    THEN /\ result.t = "ImpliedLiteral"
         /\ Len(result.list) = 1
         /\ result.list[1] \in u.unassigned
         /\ \A l \in u.unassigned : l.factor <= result.list[1].factor
    ELSE result.t = "NothingToPropagated"

\* the calls of propagate on the_constraint for a variable it has not
\* recorded: [index, positive, r], r what ConstraintPropagate returns
UnrecordedCalls ==
    { [ index |-> index, positive |-> positive,
        r |-> ConstraintPropagate(the_constraint,
                 [ index |-> index, positive |-> positive, factor |-> 0 ],
                 Propagated(the_constraint.index), Len(call_stack) + 1) ] :
        index \in DOMAIN the_constraint.literals \ DOMAIN the_constraint.assignments,
        positive \in BOOLEAN }

\* C19 as stated: propagate for a variable the constraint has not recorded
\* returns the verdict of the table on the updated sums
C19_VerdictOnUpdatedSums ==
    \A call \in UnrecordedCalls :
       VerdictFor(call.r.result, the_constraint.constraint_type, the_constraint.degree,
                  SumsAfter(the_constraint, call.index, call.positive))

\* C19: propagate for a variable the constraint has not recorded returns
\* AlreadySatisfied when the constraint is satisfied before the call
\* (GreaterEqual: sum_true >= degree; NotEqual: sum_unassigned = 0 and
\* sum_true # degree), and otherwise the verdict of the table on the updated
\* sums
C19_VerdictUnlessAlreadySatisfied ==
    \A call \in UnrecordedCalls :
       IF \/ /\ the_constraint.constraint_type = "GreaterEqual"
             /\ the_constraint.sum_true >= the_constraint.degree
          \/ /\ the_constraint.constraint_type = "NotEqual"
             /\ the_constraint.sum_unassigned = 0
             /\ the_constraint.sum_true # the_constraint.degree
       THEN call.r.result.t = "AlreadySatisfied"
       ELSE VerdictFor(call.r.result, the_constraint.constraint_type,
                       the_constraint.degree,
                       SumsAfter(the_constraint, call.index, call.positive))

\* after a call of propagate the constraint has two unrecorded variables
\* left, and the next call for one of them implies the literal of the other
C19_Witness ==
    /\ pc = "propagating"
    /\ call_stack # << >>
    /\ \E call \in UnrecordedCalls :
          /\ call.r.result.t = "ImpliedLiteral"
          /\ call.r.result.list[1].index # call.index

\* whether the constraint after is the constraint before with the assignment
\* of variable index to positive recorded
Recorded(before, after, index, positive) ==
    /\ index \notin DOMAIN after.unassigned_literals
    /\ DOMAIN after.unassigned_literals = DOMAIN before.unassigned_literals \ { index }
    /\ index \in DOMAIN after.assignments
    /\ after.assignments[index].sign = positive
    /\ DOMAIN after.assignments = DOMAIN before.assignments \cup { index }
    /\ after.sum_unassigned = before.sum_unassigned - before.literals[index].factor
    /\ after.sum_true = IF before.literals[index].positive = positive
                        THEN before.sum_true + before.literals[index].factor
                        ELSE before.sum_true

\* C20 as stated: every call of propagate for a variable the constraint has
\* not recorded records the assignment and updates the sums, whatever the
\* verdict
C20_EveryCallRecords ==
    \A call \in UnrecordedCalls :
       Recorded(the_constraint, call.r.c, call.index, call.positive)

\* C20: a call of propagate for a variable the constraint has not recorded
\* leaves a constraint that is satisfied before the call as it is and
\* returns AlreadySatisfied; on a constraint that is not, it records the
\* assignment and updates the sums whatever the verdict
C20_RecordsUnlessAlreadySatisfied ==
    \A call \in UnrecordedCalls :
       IF IsSatisfiedNow(the_constraint)
       THEN /\ call.r.c = the_constraint
            /\ call.r.result.t = "AlreadySatisfied"
       ELSE /\ Recorded(the_constraint, call.r.c, call.index, call.positive)
            /\ call.r.result.t \in { "Satisfied", "Unsatisfied", "ImpliedLiteralList",
                                     "ImpliedLiteral", "NothingToPropagated" }

\* propagate has been called for a variable while the constraint was
\* satisfied and has not recorded it, after a call that recorded another
\* variable, and a variable is left to call it for
C20_Witness ==
    /\ pc = "propagating"
    /\ CalledVariables \ DOMAIN the_constraint.assignments # { }
    /\ DOMAIN the_constraint.assignments # { }
    /\ UnrecordedCalls # { }
    /\ \E call \in UnrecordedCalls : call.index \notin CalledVariables

\* the part of the solver state a completed decision gives back: the solver's
\* assignments, scope and counters and the sums and assignments of every
\* normal constraint
RestoredPart(s) ==
    [ assignments |-> s.assignments,
      variable_in_scope |-> s.variable_in_scope,
      constraint_indexes_in_scope |-> s.constraint_indexes_in_scope,
      number_unsat_constraints |-> s.number_unsat_constraints,
      number_unassigned_variables |-> s.number_unassigned_variables,
      decision_level |-> s.decision_level,
      constraints |-> [ i \in DOMAIN s.pseudo_boolean_formula.constraints |->
                          [ sum_true |-> s.pseudo_boolean_formula.constraints[i].sum_true,
                            sum_unassigned |->
                                s.pseudo_boolean_formula.constraints[i].sum_unassigned,
                            assignments |->
                                s.pseudo_boolean_formula.constraints[i].assignments ] ] ]

\* the number of decision frames on the trail of s
DecisionFrames(s) ==
    Cardinality({ i \in 1..Len(s.assignment_stack) :
                    /\ s.assignment_stack[i].e = "Assignment"
                    /\ s.assignment_stack[i].assignment_kind \in
                          { FirstDecision, SecondDecision } })

RECURSIVE RestoresFrom(_, _, _)
\* whether, in every continuation of Solver::count from the solver s at
\* position where, each completion of a SecondDecision frame leaves the
\* RestoredPart the solver had when decide chose the variable; decided holds
\* these parts for the decision frames on the trail
RestoresFrom(s, where, decided) ==
    IF s.panic # "" THEN TRUE
    ELSE IF where = "loop"
    THEN \A nv \in PartitionerChoices(s) :
            Bind(MainStep(s, nv), LAMBDA r :
               RestoresFrom(r.s, r.next,
                            IF DecisionFrames(r.s) > DecisionFrames(s)
                            THEN Append(decided, RestoredPart(s)) ELSE decided))
    ELSE IF where = "backtrack"
    THEN Bind(BacktrackStep(s), LAMBDA r :
           Bind(CASE r.ret = "loop" -> "backtrack"
                  [] r.ret = "true" -> "loop"
                  [] OTHER -> "return", LAMBDA next :
             IF BacktrackCase(s) = "second_decision" /\ r.s.panic = ""
             THEN /\ decided # << >>
                  /\ RestoredPart(r.s) = Top(decided)
                  /\ RestoresFrom(r.s, next, Pop(decided))
             ELSE RestoresFrom(r.s, next, decided)))
    ELSE TRUE

\* whether every run of Solver::solve on the file gives back the RestoredPart
\* at each completed decision
DecisionsRestore(file) ==
    Bind(SolverSimplify(NewSolver(NewPseudoBooleanFormula(file))), LAMBDA r :
      r.s.panic # "" \/ ~r.ok \/ RestoresFrom(r.s, "loop", << >>))

\* C21: in the run that has returned, every completion of a SecondDecision
\* frame left the solver's assignments, scope, counters and decision level
\* and every normal constraint's sums and assignments as they were when decide
\* chose the variable; and when count returns with the whole trail popped,
\* every normal constraint has the sums and assignments it was built with
C21_DecisionRestoresState ==
    pc = "done" =>
       /\ DecisionsRestore(opb_file)
       /\ (solver_result.some /\ assignment_stack = << >>) =>
             RestoredPart(Solver).constraints
                = RestoredPart(NewSolver(NewPseudoBooleanFormula(opb_file))).constraints

\* count has returned a positive count with the whole trail popped after a
\* search that completed a SecondDecision frame (the cache got an entry)
C21_Witness ==
    /\ pc = "done"
    /\ solver_result.some
    /\ assignment_stack = << >>
    /\ statistics.cache_entries > 0
    /\ solver_result.model_count > 0

\* the residual formula of the current scope: its unassigned variables, the
\* unassigned variables of an active constraint, the variables in no active
\* constraint
FreeVariables == { v \in variable_in_scope : ~assignments[v].some }

FreeVariablesOf(i) ==
    DOMAIN pseudo_boolean_formula.constraints[i].unassigned_literals \cap FreeVariables

IsolatedVariables ==
    { v \in FreeVariables : \A i \in constraint_indexes_in_scope : v \notin FreeVariablesOf(i) }

RECURSIVE LinkedTo(_)
\* the active constraints linked to one of S through shared free variables
LinkedTo(S) ==
    LET more == { j \in constraint_indexes_in_scope :
                    \E i \in S : FreeVariablesOf(i) \cap FreeVariablesOf(j) # { } }
    IN IF more \subseteq S THEN S ELSE LinkedTo(S \cup more)

\* the residual formula has at least two connected components or at least
\* one isolated variable
ResidualSplits ==
    \/ \E i \in constraint_indexes_in_scope : LinkedTo({ i }) # constraint_indexes_in_scope
    \/ IsolatedVariables # { }

\* the main loop reaches its third step: the sub-formula is not satisfied and
\* the cache has no result for it
ReachesDecomposition ==
    /\ pc = "loop"
    /\ number_unsat_constraints > 0
    /\ ~get_cached_result(Solver).some

\* the step pushes a ComponentBranch frame and sets the scope to its first
\* component
PushesComponentBranch ==
    /\ Len(assignment_stack') = Len(assignment_stack) + 1
    /\ SubSeq(assignment_stack', 1, Len(assignment_stack)) = assignment_stack
    /\ Top(assignment_stack').e = "ComponentBranch"
    /\ Top(assignment_stack').current_component = 0
    /\ Len(Top(assignment_stack').components) >= 1
    /\ variable_in_scope' = Top(assignment_stack').components[1].variables
    /\ constraint_indexes_in_scope'
          = Top(assignment_stack').components[1].constraint_indexes_in_scope
    /\ pc' = "loop"

\* C22 as stated: whenever the residual formula at the third step has two
\* connected components or an isolated variable, a ComponentBranch frame is
\* pushed and the scope set to its first component
C22_SplitsWheneverDisconnected ==
    [][ReachesDecomposition /\ ResidualSplits => PushesComponentBranch]_vars

\* C22: at the third step with at least two unsatisfied constraints in scope
\* a ComponentBranch frame is pushed and the scope set to its first component
\* whenever the residual formula has two connected components or an isolated
\* variable; with a single unsatisfied constraint in scope no frame is pushed
\* for an isolated variable and a variable is decided instead
C22_SplitsWithTwoConstraints ==
    [][ReachesDecomposition =>
         IF number_unsat_constraints > 1
         THEN ResidualSplits => PushesComponentBranch
         ELSE /\ ~PushesComponentBranch
              /\ assignment_stack' # assignment_stack
              /\ assignment_stack'[Len(assignment_stack) + 1].e = "Assignment"
              /\ assignment_stack'[Len(assignment_stack) + 1].assignment_kind
                    = FirstDecision]_vars

\* a ComponentBranch frame is on top of the trail, its components being a
\* sub-formula and the isolated variables
C22_Witness ==
    /\ pc = "loop"
    /\ assignment_stack # << >>
    /\ Top(assignment_stack).e = "ComponentBranch"
    /\ Top(assignment_stack).current_component = 0
    /\ Len(Top(assignment_stack).components) >= 2
    /\ \E k \in 1..Len(Top(assignment_stack).components) :
          Top(assignment_stack).components[k].constraint_indexes_in_scope = { }

\* whether the components of the ComponentBranch frame f partition the scope
\* (variables, constraint indexes) of the solver they were split from, each
\* constraint keeping its unassigned literals inside its component and each
\* counter being the size of its set
PartitionsScope(f, variables, constraint_indexes, constraints) ==
    LET n == Len(f.components) IN
    /\ \A j, k \in 1..n :
          j # k => /\ f.components[j].variables \cap f.components[k].variables = { }
                   /\ f.components[j].constraint_indexes_in_scope
                         \cap f.components[k].constraint_indexes_in_scope = { }
    /\ UNION { f.components[k].variables : k \in 1..n } = variables
    /\ UNION { f.components[k].constraint_indexes_in_scope : k \in 1..n } = constraint_indexes
    /\ \A k \in 1..n :
          /\ \A i \in f.components[k].constraint_indexes_in_scope :
                DOMAIN constraints[i].unassigned_literals \subseteq f.components[k].variables
          /\ f.components[k].number_unassigned_variables
                = Cardinality(f.components[k].variables)
          /\ f.components[k].number_unsat_constraints
                = Cardinality(f.components[k].constraint_indexes_in_scope)

\* C23: the components of every ComponentBranch frame pushed on the trail
\* partition variable_in_scope and constraint_indexes_in_scope of the moment
\* of the split, every constraint of a component has its unassigned literals
\* inside the component, and the counters of a component are the sizes of
\* its sets
C23_ComponentsPartitionScope ==
    [][(/\ Len(assignment_stack') > Len(assignment_stack)
        /\ Top(assignment_stack').e = "ComponentBranch")
       => PartitionsScope(Top(assignment_stack'), variable_in_scope,
                          constraint_indexes_in_scope,
                          pseudo_boolean_formula.constraints)]_vars

\* a ComponentBranch frame of disconnected constraints has just been pushed:
\* two of its components hold constraints
C23_Witness ==
    /\ pc = "loop"
    /\ assignment_stack # << >>
    /\ Top(assignment_stack).e = "ComponentBranch"
    /\ Top(assignment_stack).current_component = 0
    /\ \E j, k \in 1..Len(Top(assignment_stack).components) :
          /\ j # k
          /\ Top(assignment_stack).components[j].constraint_indexes_in_scope # { }
          /\ Top(assignment_stack).components[k].constraint_indexes_in_scope # { }
    /\ variable_in_scope = Top(assignment_stack).components[1].variables

RECURSIVE ProductOf(_)
\* the product of a list of counts
ProductOf(counts) ==
    IF counts = << >> THEN 1 ELSE Head(counts) * ProductOf(Tail(counts))

\* backtrack on a ComponentBranch frame f with components left: the frame
\* advances by one component, whose sets and counters become the scope, and
\* backtrack returns to the main step
AdvancesComponent(f) ==
    LET next == f.components[f.current_component + 2] IN
    /\ assignment_stack'
          = Append(Pop(assignment_stack), [ f EXCEPT !.current_component = @ + 1 ])
    /\ variable_in_scope' = next.variables
    /\ constraint_indexes_in_scope' = next.constraint_indexes_in_scope
    /\ number_unassigned_variables' = next.number_unassigned_variables
    /\ number_unsat_constraints' = next.number_unsat_constraints
    /\ result_stack' = result_stack
    /\ ddnnf_stack' = ddnnf_stack
    /\ pc' = "loop"

\* backtrack on a ComponentBranch frame f whose components are all
\* processed: as many counts and nodes as components are popped, their
\* product and their conjunction pushed, the saved scope restored and the
\* frame popped
ClosesComponentBranch(f) ==
    LET n == Len(f.components)
        counts == SubSeq(result_stack, Len(result_stack) - n + 1, Len(result_stack))
        nodes == SubSeq(ddnnf_stack, Len(ddnnf_stack) - n + 1, Len(ddnnf_stack))
    IN
    /\ Len(result_stack) >= n
    /\ Len(ddnnf_stack) >= n
    /\ result_stack' = Append(SubSeq(result_stack, 1, Len(result_stack) - n),
                              ProductOf(counts))
    /\ Len(ddnnf_stack') = Len(ddnnf_stack) - n + 1
    /\ SubSeq(ddnnf_stack', 1, Len(ddnnf_stack) - n)
          = SubSeq(ddnnf_stack, 1, Len(ddnnf_stack) - n)
    /\ IF \E i \in 1..n : nodes[i].t = "False"
       THEN Top(ddnnf_stack') = FalseLeave
       ELSE /\ Top(ddnnf_stack').t = "And"
            /\ Len(Top(ddnnf_stack').children) = n
            /\ Range(Top(ddnnf_stack').children) = Range(nodes)
    /\ number_unsat_constraints' = f.previous_number_unsat_constraints
    /\ number_unassigned_variables' = f.previous_number_unassigned_variables
    /\ variable_in_scope' = f.previous_variables_in_scope
    /\ constraint_indexes_in_scope' = f.previous_constraint_indexes_in_scope
    /\ assignment_stack' = Pop(assignment_stack)

\* C24: an iteration of backtrack on a ComponentBranch frame advances the
\* frame to its next component if components remain, and otherwise closes
\* the frame with the product of the components' counts and the AndNode of
\* their nodes (FalseLeave if one of them is FalseLeave) and restores the
\* scope saved in the frame
C24_ComponentBranchBacktrack ==
    [][(/\ pc = "backtrack"
        /\ assignment_stack # << >>
        /\ Top(assignment_stack).e = "ComponentBranch")
       => IF Top(assignment_stack).current_component + 1
               < Len(Top(assignment_stack).components)
          THEN AdvancesComponent(Top(assignment_stack))
          ELSE ClosesComponentBranch(Top(assignment_stack))]_vars

\* backtrack has closed a ComponentBranch: the node on top of ddnnf_stack is
\* an AndNode of two components' nodes, the count on top of result_stack the
\* product of two counts above 1
C24_Witness ==
    /\ pc = "backtrack"
    /\ ddnnf_stack # << >>
    /\ result_stack # << >>
    /\ Top(ddnnf_stack).t = "And"
    /\ Len(Top(ddnnf_stack).children) = 2
    /\ \A i \in 1..2 : Top(ddnnf_stack).children[i].t \in { "Or", "And" }
    /\ Top(result_stack) >= 4
    /\ next_variables = << >>

\* the frame the step pushes is a ComponentBranch
PushesFrame ==
    /\ Len(assignment_stack') = Len(assignment_stack) + 1
    /\ Top(assignment_stack').e = "ComponentBranch"

\* the component the frame on top of the trail is at
CurrentComponent ==
    Top(assignment_stack).components[Top(assignment_stack).current_component + 1]

\* the main step is reached inside a component without constraints
AtFreeComponent ==
    /\ pc = "loop"
    /\ assignment_stack # << >>
    /\ Top(assignment_stack).e = "ComponentBranch"
    /\ CurrentComponent.constraint_indexes_in_scope = { }

RECURSIVE TwoToThe(_)
TwoToThe(k) == IF k = 0 THEN 1 ELSE 2 * TwoToThe(k - 1)

\* C25 as stated: every isolated variable is a component of its own in the
\* ComponentBranch pushed, and a component without constraints contributes
\* the count 2
C25_EachIsolatedVariableOwnComponent ==
    [][/\ PushesFrame =>
            \A v \in IsolatedVariables :
               \E i \in 1..Len(Top(assignment_stack').components) :
                  /\ Top(assignment_stack').components[i].variables = { v }
                  /\ Top(assignment_stack').components[i].constraint_indexes_in_scope = { }
       /\ AtFreeComponent => result_stack' = Append(result_stack, 2)]_vars

\* C25: the isolated variables of the scope together are one component of
\* the ComponentBranch pushed, the last one, without constraints; no other
\* component is without constraints; the component contributes the count
\* 2^k for its k variables, with the node TrueLeave
C25_IsolatedVariablesOneComponent ==
    [][/\ PushesFrame =>
            LET components == Top(assignment_stack').components
                free == { i \in 1..Len(components) :
                            components[i].constraint_indexes_in_scope = { } }
            IN IF IsolatedVariables = { } THEN free = { }
               ELSE /\ free = { Len(components) }
                    /\ components[Len(components)].variables = IsolatedVariables
                    /\ components[Len(components)].number_unassigned_variables
                          = Cardinality(IsolatedVariables)
                    /\ components[Len(components)].number_unsat_constraints = 0
       /\ AtFreeComponent =>
            /\ result_stack'
                  = Append(result_stack, TwoToThe(Cardinality(CurrentComponent.variables)))
            /\ ddnnf_stack' = Append(ddnnf_stack, TrueLeave)
            /\ pc' = "backtrack"]_vars

\* the component of two isolated variables has been counted: 4 on top of
\* result_stack, the frame at its last component, which has two variables
\* and no constraint
C25_Witness ==
    /\ pc = "backtrack"
    /\ assignment_stack # << >>
    /\ Top(assignment_stack).e = "ComponentBranch"
    /\ Top(assignment_stack).current_component + 1 = Len(Top(assignment_stack).components)
    /\ CurrentComponent.constraint_indexes_in_scope = { }
    /\ Cardinality(CurrentComponent.variables) = 2
    /\ result_stack # << >>
    /\ Top(result_stack) = 4
    /\ Top(ddnnf_stack) = TrueLeave

\* node is the branch node d carrying the literal of variable v with the
\* sign of the branch: the literal itself for TrueLeave, FalseLeave for
\* FalseLeave, the AndNode d extended by the literal, or a new AndNode of
\* the literal and d
Carries(node, d, v, sign) ==
    CASE d.t = "True" -> node = LiteralLeave(v, sign)
      [] d.t = "False" -> node = FalseLeave
      [] d.t = "And" -> /\ node.t = "And"
                        /\ node.children = Append(d.children, LiteralLeave(v, sign))
      [] OTHER -> /\ node.t = "And"
                  /\ node.children = << LiteralLeave(v, sign), d >>

\* the step completes the SecondDecision frame f over the counts r1, r2 and
\* the branch nodes d1 (the branch of the frame's sign) and d2 popped
CompletesSecondDecision(f, r1, r2, d1, d2) ==
    /\ result_stack' = Append(Pop(Pop(result_stack)), r1 + r2)
    /\ Len(ddnnf_stack') = Len(ddnnf_stack) - 1
    /\ Pop(ddnnf_stack') = Pop(Pop(ddnnf_stack))
    /\ LET node == Top(ddnnf_stack') IN
       CASE d1.t = "False" /\ d2.t = "False" -> node = FalseLeave
         [] d1.t # "False" /\ d2.t = "False" ->
               Carries(node, d1, f.variable_index, f.variable_sign)
         [] d1.t = "False" /\ d2.t # "False" ->
               Carries(node, d2, f.variable_index, ~f.variable_sign)
         [] OTHER ->
               /\ node.t = "Or"
               /\ Len(node.children) = 2
               /\ \E i, j \in 1..2 :
                    /\ i # j
                    /\ Carries(node.children[i], d1, f.variable_index, f.variable_sign)
                    /\ Carries(node.children[j], d2, f.variable_index, ~f.variable_sign)

\* C26: an iteration of backtrack on a SecondDecision frame pops two counts
\* and two nodes and pushes the sum of the counts with FalseLeave (both
\* nodes FalseLeave), the one node that is not FalseLeave carrying its
\* decision literal, or the OrNode of the two nodes carrying their decision
\* literals
C26_SecondDecisionCompletion ==
    [][(pc = "backtrack" /\ BacktrackCase(Solver) = "second_decision")
       => /\ Len(result_stack) >= 2
          /\ Len(ddnnf_stack) >= 2
          /\ CompletesSecondDecision(Top(assignment_stack),
                Top(result_stack), Top(Pop(result_stack)),
                Top(ddnnf_stack), Top(Pop(ddnnf_stack)))]_vars

\* a decision completed with an OrNode of a decision literal (a TrueLeave
\* branch) and of an AndNode extended by the opposite literal
C26_Witness ==
    /\ pc = "backtrack"
    /\ ddnnf_stack # << >>
    /\ Top(ddnnf_stack).t = "Or"
    /\ \E i, j \in 1..2 :
         /\ Top(ddnnf_stack).children[i].t = "Lit"
         /\ Top(ddnnf_stack).children[j].t = "And"
         /\ Len(Top(ddnnf_stack).children[j].children) >= 3
         /\ \E k \in 1..Len(Top(ddnnf_stack).children[j].children) :
              /\ Top(ddnnf_stack).children[j].children[k].t = "Lit"
              /\ Top(ddnnf_stack).children[j].children[k].index
                    = Top(ddnnf_stack).children[i].index
              /\ Top(ddnnf_stack).children[j].children[k].positive
                    = ~Top(ddnnf_stack).children[i].positive
    /\ Top(result_stack) >= 2

\* the decision frames of the trail carry the sign of their kind: true for a
\* FirstDecision, false for a SecondDecision
DecisionSigns ==
    \A i \in 1..Len(assignment_stack) :
       (/\ assignment_stack[i].e = "Assignment"
        /\ assignment_stack[i].assignment_kind \in { FirstDecision, SecondDecision })
       => (assignment_stack[i].variable_sign
             <=> assignment_stack[i].assignment_kind = FirstDecision)

\* the step decides: the trail grows by frames of which the first is a
\* FirstDecision with the sign true, one decision level up
DecidesTrue ==
    \A i \in 1..Len(assignment_stack') :
       (/\ i > Len(assignment_stack)
        /\ assignment_stack'[i].e = "Assignment"
        /\ assignment_stack'[i].assignment_kind \in { FirstDecision, SecondDecision })
       => /\ i = Len(assignment_stack) + 1
          /\ assignment_stack'[i].assignment_kind = FirstDecision
          /\ assignment_stack'[i].variable_sign
          /\ assignment_stack'[i].decision_level = decision_level + 1
          /\ decision_level' = decision_level + 1

\* the propagation of the flipped decision of the FirstDecision frame on
\* top of the trail
SecondPropagation ==
    SolverPropagate(undo_last_assignment(Solver), Top(assignment_stack).variable_index,
                    FALSE, SecondDecision)

\* the step flips the FirstDecision frame on top of the trail: the frames
\* below stay, the frame at its position is the SecondDecision of the same
\* variable and decision level with the sign false; a conflict pushes
\* (0, FalseLeave) and leaves control in backtrack, no conflict leaves the
\* stacks and returns to the main step
FlipsDecision ==
    LET f == Top(assignment_stack)
        p == Len(assignment_stack)
    IN /\ f.variable_sign
       /\ Len(assignment_stack') >= p
       /\ SubSeq(assignment_stack', 1, p - 1) = Pop(assignment_stack)
       /\ assignment_stack'[p] = [ f EXCEPT !.variable_sign = FALSE,
                                            !.assignment_kind = SecondDecision ]
       /\ decision_level' = decision_level
       /\ IF SecondPropagation.conflict.t # "None"
          THEN /\ result_stack' = Append(result_stack, 0)
               /\ ddnnf_stack' = Append(ddnnf_stack, FalseLeave)
               /\ pc' = "backtrack"
          ELSE /\ result_stack' = result_stack
               /\ ddnnf_stack' = ddnnf_stack
               /\ pc' = "loop"

\* C27: a decision assigns true as a FirstDecision; backtrack on that frame
\* puts the SecondDecision with the sign false at the same trail position and
\* decision level, pushes (0, FalseLeave) and goes on on a conflict and
\* returns to the main step otherwise; backtrack on a SecondDecision frame
\* removes the frame, so that each sign is explored once
C27_TrueThenFalseOnce ==
    [][/\ DecisionSigns
       /\ pc = "loop" => DecidesTrue
       /\ (pc = "backtrack" /\ BacktrackCase(Solver) = "first_decision") => FlipsDecision
       /\ (pc = "backtrack" /\ BacktrackCase(Solver) = "second_decision")
            => /\ assignment_stack' = Pop(assignment_stack)
               /\ decision_level' = decision_level - 1
       /\ (pc = "backtrack" /\ BacktrackCase(Solver) \notin { "first_decision" })
            => Len(assignment_stack') <= Len(assignment_stack)]_vars

\* the main step is reached on the negative branch of a decision whose
\* positive branch has been counted
C27_Witness ==
    /\ pc = "loop"
    /\ assignment_stack # << >>
    /\ \E i \in 1..Len(assignment_stack) :
         /\ assignment_stack[i].e = "Assignment"
         /\ assignment_stack[i].assignment_kind = SecondDecision
         /\ ~assignment_stack[i].variable_sign
         /\ assignment_stack[i].decision_level = decision_level
    /\ result_stack # << >>
    /\ Top(result_stack) > 0
    /\ number_unsat_constraints > 0

\* the step completes a decision on variable v with an OrNode whose first
\* child is the node of the branch of sign first and whose second child is
\* the node of the other branch
OrNodeOrder(first) ==
    LET f == Top(assignment_stack)
        negative == Top(ddnnf_stack)
        positive == Top(Pop(ddnnf_stack))
        node == Top(ddnnf_stack')
    IN node.t = "Or" =>
          /\ Len(node.children) = 2
          /\ ~f.variable_sign
          /\ Carries(node.children[IF first THEN 1 ELSE 2], positive, f.variable_index, TRUE)
          /\ Carries(node.children[IF first THEN 2 ELSE 1], negative, f.variable_index, FALSE)

\* C28 as stated: the first child of the OrNode of a decision is the node
\* of the positive branch, the second the node of the negative branch
C28_PositiveBranchFirst ==
    [][(pc = "backtrack" /\ BacktrackCase(Solver) = "second_decision")
       => OrNodeOrder(TRUE)]_vars

\* C28: the first child of the OrNode of a decision is the node of the
\* negative branch (the SecondDecision, popped first), the second child the
\* node of the positive branch (the FirstDecision)
C28_NegativeBranchFirst ==
    [][(pc = "backtrack" /\ BacktrackCase(Solver) = "second_decision")
       => OrNodeOrder(FALSE)]_vars

\* an OrNode on top of ddnnf_stack whose first child bears a negative
\* literal of the variable its second child bears positive
C28_Witness ==
    /\ pc = "backtrack"
    /\ ddnnf_stack # << >>
    /\ Top(ddnnf_stack).t = "Or"
    /\ \E v \in 0..(MaxVars - 1) :
         /\ Bears(Top(ddnnf_stack).children[1], v, FALSE)
         /\ Bears(Top(ddnnf_stack).children[2], v, TRUE)
         /\ ~Bears(Top(ddnnf_stack).children[1], v, TRUE)

\* the step decides a variable: the frame it puts on the trail first is a
\* FirstDecision
Decides ==
    /\ pc = "loop"
    /\ Len(assignment_stack') > Len(assignment_stack)
    /\ assignment_stack'[Len(assignment_stack) + 1].e = "Assignment"
    /\ assignment_stack'[Len(assignment_stack) + 1].assignment_kind = FirstDecision

\* the variable the step decides
Decided == assignment_stack'[Len(assignment_stack) + 1].variable_index

\* the unassigned in-scope variables of the unsatisfied constraints
OpenVariables ==
    { v \in variable_in_scope :
        /\ ~Solver.assignments[v].some
        /\ \E i \in DOMAIN Solver.pseudo_boolean_formula.constraints :
             /\ is_unsatisfied(Solver.pseudo_boolean_formula.constraints[i])
             /\ v \in DOMAIN Solver.pseudo_boolean_formula.constraints[i].unassigned_literals }

\* v has the highest VSIDS score among S
HighestScore(v, S) ==
    /\ v \in S
    /\ \A x \in S : vsids_scores[x] <= vsids_scores[v]

\* C29: the variable a decision is made on is unassigned and in scope; it
\* has the highest VSIDS score of next_variables, as decide finds the list
\* (filtered to the unassigned in-scope variables, and filled with the cut
\* of the partitioner when it was empty), when the list is not empty, and
\* the highest score among the unassigned in-scope variables of the
\* unsatisfied constraints otherwise
C29_DecidesOpenVariable ==
    [][Decides =>
         /\ ~Solver.assignments[Decided].some
         /\ Decided \in variable_in_scope
         /\ \E nv \in PartitionerChoices(Solver) :
              LET list == to_disconnected_components(Solver, nv).s.next_variables IN
              /\ \A i \in 1..Len(list) :
                    /\ ~Solver.assignments[list[i]].some
                    /\ list[i] \in variable_in_scope
              /\ IF list # << >>
                 THEN HighestScore(Decided, Range(list))
                 ELSE HighestScore(Decided, OpenVariables)]_vars

\* a decision has been made from a cut of two variables with different
\* scores: the variable decided is still in next_variables with the other
C29_Witness ==
    /\ pc = "loop"
    /\ assignment_stack # << >>
    /\ Top(assignment_stack).e = "Assignment"
    /\ Top(assignment_stack).assignment_kind = FirstDecision
    /\ Len(next_variables) >= 2
    /\ Top(assignment_stack).variable_index \in Range(next_variables)
    /\ \E x \in Range(next_variables) :
         vsids_scores[x] < vsids_scores[Top(assignment_stack).variable_index]

IsLearnedClause(c, k) ==
    /\ c.constraint_type = "GreaterEqual"
    /\ c.degree = 1
    /\ c.index = LearnedClauseIndex(k)
    /\ DOMAIN c.literals = DOMAIN c.assignments
    /\ \A v \in DOMAIN c.literals :
          /\ c.literals[v].index = v
          /\ c.literals[v].factor = 1
          /\ c.literals[v].positive = ~c.assignments[v].sign
    /\ c.unassigned_literals = EmptyMap
    /\ c.sum_true = 0
    /\ c.sum_unassigned = 0

\* C31: a clause a step adds to learned_clauses is GreaterEqual with degree
\* 1 and unit-factor literals opposite to the assigned signs of its
\* variables, has the index LearnedClauseIndex(learned_clauses.len()), is
\* appended to learned_clauses_by_variables of exactly its variables, and
\* all its literals are assigned false when it is created
C31_LearnedClauseShape ==
    [][\A k \in DOMAIN learned_clauses' \ DOMAIN learned_clauses :
          /\ k = Cardinality(DOMAIN learned_clauses)
          /\ DOMAIN learned_clauses' = DOMAIN learned_clauses \cup { k }
          /\ IsLearnedClause(learned_clauses'[k], k)
          /\ \A v \in DOMAIN learned_clauses'[k].literals :
                /\ assignments'[v] = Some(~learned_clauses'[k].literals[v].positive)
                /\ assignments'[v].sign = learned_clauses'[k].assignments[v].sign
          /\ \A v \in DOMAIN learned_clauses_by_variables :
                learned_clauses_by_variables'[v]
                   = IF v \in DOMAIN learned_clauses'[k].literals
                     THEN Append(learned_clauses_by_variables[v], k)
                     ELSE learned_clauses_by_variables[v]]_vars

\* a second clause has been learned, over two variables
C31_Witness ==
    /\ Cardinality(DOMAIN learned_clauses) >= 2
    /\ \E k \in DOMAIN learned_clauses :
         /\ k >= 1
         /\ Cardinality(DOMAIN learned_clauses[k].literals) >= 2
         /\ \E v \in DOMAIN learned_clauses[k].literals :
               k \in Range(learned_clauses_by_variables[v])

\* the variables of a clause whose recorded assignment was made at the
\* decision level level
AssignedAtLevel(c, level) ==
    { v \in DOMAIN c.assignments : c.assignments[v].decision_level = level }

\* C32: a clause that a step learns holds exactly one variable assigned at
\* the decision level of the conflict, and the walk of analyze down the
\* trail never panics
C32_OneCurrentLevelReason ==
    [][/\ panic' = ""
       /\ \A k \in DOMAIN learned_clauses' \ DOMAIN learned_clauses :
             Cardinality(AssignedAtLevel(learned_clauses'[k], decision_level')) = 1]_vars

\* a conflict has just been analysed above a propagated assignment of the
\* current decision level: the clause learned last holds the decision of
\* that level as its only variable of the level, next to a variable of a
\* lower level
C32_Witness ==
    /\ pc = "backtrack"
    /\ learned_clauses # EmptyMap
    /\ result_stack # << >>
    /\ Top(result_stack) = 0
    /\ assignment_stack # << >>
    /\ Top(assignment_stack).e = "Assignment"
    /\ Top(assignment_stack).assignment_kind.k = "Propagated"
    /\ Top(assignment_stack).decision_level = decision_level
    /\ LET c == learned_clauses[Cardinality(DOMAIN learned_clauses) - 1] IN
       /\ Cardinality(DOMAIN c.literals) >= 2
       /\ \E v \in DOMAIN c.assignments :
             /\ AssignedAtLevel(c, decision_level) = { v }
             /\ c.assignments[v].kind.k # "Propagated"
             /\ assignments[v] = Some(c.assignments[v].sign)

RECURSIVE DequeuesOpposite(_, _)
\* the while loop of Solver::propagate run on s and the queue takes from the
\* queue an assignment of a variable that holds the opposite value
DequeuesOpposite(s, propagation_queue) ==
    IF propagation_queue = << >> THEN FALSE
    ELSE LET entry == Head(propagation_queue)
             rest == Tail(propagation_queue)
         IN
         IF s.assignments[entry.index].some
         THEN \/ s.assignments[entry.index].sign # entry.sign
              \/ DequeuesOpposite(s, rest)
         ELSE IF entry.index \notin s.variable_in_scope
         THEN DequeuesOpposite(s, rest)
         ELSE Bind(AssignVariable(s, entry), LAMBDA s1 :
              Bind(PropagateConstraints(s1, rest, entry,
                     s1.pseudo_boolean_formula.constraints_by_variable[entry.index], 1),
                   LAMBDA n :
                 IF n.conflict.t # "None" \/ n.s.panic # "" THEN FALSE
                 ELSE Bind(PropagateLearned(n.s, n.queue, entry,
                             n.s.learned_clauses_by_variables[entry.index], 1),
                           LAMBDA l :
                         IF l.conflict.t # "None" \/ l.s.panic # "" THEN FALSE
                         ELSE DequeuesOpposite(l.s, l.queue))))

\* the queue Solver::propagate starts from
FirstEntry(variable_index, variable_sign, assignment_kind) ==
    << [ index |-> variable_index, sign |-> variable_sign, kind |-> assignment_kind,
         from_learned_clause |-> FALSE ] >>

RECURSIVE SimplifyOpposes(_, _)
\* one of the propagate calls of the second loop of simplify takes an
\* assignment of a variable that holds the opposite value
SimplifyOpposes(s, propagation_set) ==
    IF propagation_set = << >> THEN FALSE
    ELSE LET first == FirstEntry(Head(propagation_set).index, Head(propagation_set).sign,
                                 Propagated(Head(propagation_set).constraint_index))
             r == PropagateQueue(s, first)
         IN \/ DequeuesOpposite(s, first)
            \/ /\ r.s.panic = ""
               /\ r.conflict.t = "None"
               /\ SimplifyOpposes(r.s, Tail(propagation_set))

\* the call of propagate that the step to be taken from the state makes
\* takes an assignment of a variable that holds the opposite value
OpposedImplication ==
    CASE pc = "simplify" ->
            LET first == SimplifyConstraints(Solver, 0, << >>) IN
            first.ok /\ SimplifyOpposes(first.s, first.propagation_set)
      [] pc = "loop" /\ number_unsat_constraints > 0 /\ ~get_cached_result(Solver).some ->
            \E nv \in PartitionerChoices(Solver) :
               LET b == branch_components(Solver, nv) IN
               /\ ~b.branched
               /\ b.s.panic = ""
               /\ decide(b.s).some
               /\ DequeuesOpposite(decide(b.s).s,
                                   FirstEntry(decide(b.s).index, TRUE, FirstDecision))
      [] pc = "backtrack" /\ BacktrackCase(Solver) = "first_decision" ->
            DequeuesOpposite(undo_last_assignment(Solver),
                             FirstEntry(Top(assignment_stack).variable_index,
                                        ~Top(assignment_stack).variable_sign,
                                        SecondDecision))
      [] OTHER -> FALSE

RECURSIVE PendingResults(_)
\* the results the frames of a trail wait for: one per SecondDecision
\* frame, current_component per ComponentBranch frame
PendingResults(trail) ==
    IF trail = << >> THEN 0
    ELSE PendingResults(Pop(trail))
         + (IF Top(trail).e = "ComponentBranch" THEN Top(trail).current_component
            ELSE IF Top(trail).assignment_kind = SecondDecision THEN 1
            ELSE 0)

\* C34: at the head of every iteration of the loop of count the depth of
\* result_stack is the number of SecondDecision frames plus the sum of
\* current_component over the ComponentBranch frames of the trail; at the
\* head of every iteration of the loop of backtrack there is one result
\* more, and no pop of backtrack finds a stack empty
C34_ResultDepthMatchesTrail ==
    /\ pc = "loop" => Len(result_stack) = PendingResults(assignment_stack)
    /\ pc = "backtrack" => Len(result_stack) = PendingResults(assignment_stack) + 1
    /\ panic # UnwrapPanic

\* the loop of count runs with three results pending: under a SecondDecision
\* frame and in a later component of a ComponentBranch frame
C34_Witness ==
    /\ pc = "loop"
    /\ Len(result_stack) >= 2
    /\ \E i, j \in 1..Len(assignment_stack) :
         /\ assignment_stack[i].e = "ComponentBranch"
         /\ assignment_stack[i].current_component >= 1
         /\ assignment_stack[j].e = "Assignment"
         /\ assignment_stack[j].assignment_kind = SecondDecision

\* the unsatisfied constraints with an unassigned variable in scope
ActiveConstraints ==
    { i \in DOMAIN pseudo_boolean_formula.constraints :
        /\ is_unsatisfied(pseudo_boolean_formula.constraints[i])
        /\ FreeVariablesOf(i) # { } }

RECURSIVE ChainedTo(_)
\* the active constraints reached from those of S through chains of shared
\* unassigned variables
ChainedTo(S) ==
    LET more == { j \in ActiveConstraints :
                    \E i \in S : FreeVariablesOf(i) \cap FreeVariablesOf(j) # { } }
    IN IF more \subseteq S THEN S ELSE ChainedTo(S \cup more)

\* the unassigned variables in scope that are in no active constraint
LonelyVariables ==
    { v \in FreeVariables : \A i \in ActiveConstraints : v \notin FreeVariablesOf(i) }

\* the main step is about to build the hypergraph of the scope
BuildsHypergraph ==
    /\ pc = "loop"
    /\ number_unsat_constraints > 1
    /\ ~get_cached_result(Solver).some

\* C35: find_disconnected_components on the hypergraph of the scope gives
\* two active constraints the same label exactly if a chain of shared
\* unassigned variables connects them, uses the labels 0, 1, ... without a
\* gap, and reports no split exactly if there is at most one active
\* constraint, or all are connected and there is no isolated variable
C35_LabelsAreComponents ==
    BuildsHypergraph =>
       LET hypergraph == NewHypergraph(Solver)
           found == find_disconnected_components(hypergraph, Solver)
           map == hypergraph.constraint_index_map
       IN /\ ~found.panic
          /\ Range(map) = ActiveConstraints
          /\ hypergraph.single_variables = LonelyVariables
          /\ ~found.some <=>
                \/ Cardinality(ActiveConstraints) <= 1
                \/ /\ \A i \in ActiveConstraints : ChainedTo({ i }) = ActiveConstraints
                   /\ LonelyVariables = { }
          /\ found.some =>
                /\ Len(found.partvec) = Len(map)
                /\ \A a, b \in 1..Len(map) :
                      found.partvec[a] = found.partvec[b] <=> map[b] \in ChainedTo({ map[a] })
                /\ Range(found.partvec) = 0..(Cardinality(Range(found.partvec)) - 1)

\* the hypergraph of the scope has three active constraints in two
\* components: a split with the labels 0 and 1 is found
C35_Witness ==
    /\ BuildsHypergraph
    /\ Cardinality(ActiveConstraints) >= 3
    /\ \E i, j \in ActiveConstraints :
          /\ i # j
          /\ j \in ChainedTo({ i })
          /\ ChainedTo({ i }) # ActiveConstraints
    /\ find_disconnected_components(NewHypergraph(Solver), Solver).some
    /\ Range(find_disconnected_components(NewHypergraph(Solver), Solver).partvec) = { 0, 1 }

\* max_literal of a constraint is one of its unassigned literals, and none
\* of them has a larger factor
MaxLiteralCached(c) ==
    /\ c.max_literal.index \in DOMAIN c.unassigned_literals
    /\ c.unassigned_literals[c.max_literal.index].factor = c.max_literal.factor
    /\ c.unassigned_literals[c.max_literal.index].positive = c.max_literal.positive
    /\ \A v \in DOMAIN c.unassigned_literals :
          c.unassigned_literals[v].factor <= c.max_literal.factor

\* C36: at the head of every iteration of the loop of count, max_literal of
\* every unsatisfied GreaterEqual constraint, normal or learned, is one of
\* its unassigned literals with the largest factor among them
C36_MaxLiteralCached ==
    pc = "loop" =>
       /\ \A i \in DOMAIN pseudo_boolean_formula.constraints :
             (/\ pseudo_boolean_formula.constraints[i].constraint_type = "GreaterEqual"
              /\ is_unsatisfied(pseudo_boolean_formula.constraints[i]))
             => MaxLiteralCached(pseudo_boolean_formula.constraints[i])
       /\ \A k \in DOMAIN learned_clauses :
             is_unsatisfied(learned_clauses[k]) => MaxLiteralCached(learned_clauses[k])

\* the loop of count is at its head after a conflict: a learned clause is
\* unsatisfied with literals that undo gave back, and a constraint of the
\* formula is unsatisfied with a literal recorded and another one open
C36_Witness ==
    /\ pc = "loop"
    /\ \E k \in DOMAIN learned_clauses :
          /\ is_unsatisfied(learned_clauses[k])
          /\ Cardinality(DOMAIN learned_clauses[k].unassigned_literals) >= 2
          /\ MaxLiteralCached(learned_clauses[k])
    /\ \E i \in DOMAIN pseudo_boolean_formula.constraints :
          LET c == pseudo_boolean_formula.constraints[i] IN
          /\ c.constraint_type = "GreaterEqual"
          /\ is_unsatisfied(c)
          /\ DOMAIN c.assignments # {}
          /\ MaxLiteralCached(c)

\* C37: a constraint built from an equation whose right-hand side is
\* negative after normalization has degree 0 and holds under every total
\* assignment, whether it is GreaterEqual or NotEqual
C37_NegativeRhsTriviallyTrue ==
    pc = "constructed" =>
       \A i \in DOMAIN pseudo_boolean_formula.constraints :
          NormalizedEquations[i + 1].rhs < 0 =>
             /\ pseudo_boolean_formula.constraints[i].degree = 0
             /\ \A a \in TotalAssignments(opb_file.max_name_index) :
                   ConstraintHolds(pseudo_boolean_formula.constraints[i], a)

\* the total assignments over the variables the header declares that
\* satisfy every equation of the file; a declared variable beyond the names
\* of the equations is free
ModelsOverHeader ==
    { a \in TotalAssignments(opb_file.number_variables) :
        \A i \in 1..Len(opb_file.equations) :
           EquationHolds(opb_file.equations[i], a) }

\* C38: the solver counts over the variables the header declares: its
\* formula has number_variables of the header as number_variables, and the
\* model count is the number of assignments of those variables that satisfy
\* the equations
C38_CountsDeclaredUniverse ==
    /\ pseudo_boolean_formula.number_variables = opb_file.number_variables
    /\ pc = "done" => solver_result.model_count = Cardinality(ModelsOverHeader)

\* C39: DDNNFPrinter::print succeeds on every DAG solve returns: print_node
\* is never called on a LiteralLeave, so its panic "unreachable code" does
\* not happen, and the root_node of a result is no LiteralLeave
C39_PrintNeverPanics ==
    /\ printer.panic # "unreachable code"
    /\ pc # "panic"
    /\ (pc \in { "done", "printed" } /\ solver_result.some)
          => solver_result.root_node.t # "Lit"

\* the positions of the edge lines of the printed text that leave node id
EdgesFrom(id) ==
    { i \in 1..Len(printer.result_string) :
        /\ printer.result_string[i].l = "edge"
        /\ printer.result_string[i].from = id }

RECURSIVE TextVariables(_)
\* the variables the printed text mentions under node id: those of the
\* literals of its edges and those under the nodes the edges point to
TextVariables(id) ==
    UNION { { Abs(printer.result_string[i].lits[k]) :
                k \in 1..Len(printer.result_string[i].lits) }
            \cup TextVariables(printer.result_string[i].to) : i \in EdgesFrom(id) }

\* the variables of the edge written in line i
EdgeVariables(i) ==
    { Abs(printer.result_string[i].lits[k]) : k \in 1..Len(printer.result_string[i].lits) }
    \cup TextVariables(printer.result_string[i].to)

\* the ids of the AND nodes of the printed text
PrintedAndNodes ==
    { printer.result_string[i].id :
        i \in { i \in 1..Len(printer.result_string) :
                  /\ printer.result_string[i].l = "node"
                  /\ printer.result_string[i].kind = "a" } }

\* C40: the printed text is decomposable: any two edges that leave the same
\* AND node mention disjoint sets of variables, counting an edge's literals
\* and everything under the node it points to
C40_PrintedTextDecomposable ==
    pc = "printed" =>
       \A id \in PrintedAndNodes :
          \A i, j \in EdgesFrom(id) :
             i # j => EdgeVariables(i) \cap EdgeVariables(j) = { }

====
